---- MODULE Spec2Model ----
(***************************************************************************)
(* Ephemeral sub-agent delegation (core/src/delegation.ts).                *)
(*                                                                         *)
(* One invocation of the delegate_task tool: argument validation, provider *)
(* resolution, tool filtering, then runSubAgent, whose loop `run` is raced *)
(* against a timer.  A step of the model is one run of JavaScript from a   *)
(* resumption to the next suspension point (an await on the router, on     *)
(* provider.chat or on tool.execute), because nothing interleaves with     *)
(* synchronous code and promise continuations run before the next timer or *)
(* I/O callback.                                                           *)
(*                                                                         *)
(* Texts are sequences of tokens (strings).  JavaScript values that the    *)
(* code inspects dynamically (the entries of args, raised values) are      *)
(* tagged records.                                                         *)
(***************************************************************************)
EXTENDS Integers, Sequences, FiniteSets, TLC

\* ------------------------------------------------------------------------
\* Constants of the program
\* ------------------------------------------------------------------------

SUB_AGENT_MAX_ITERATIONS == 10

TOOL_ACTION_KEYS == <<"action", "tool", "name">>

DEFAULT_SAFE_TOOLS ==
    <<"heartware_read", "heartware_search", "heartware_list", "memory_recall">>

DELEGATE_TASK == "delegate_task"

\* ------------------------------------------------------------------------
\* Bounds of the model
\* ------------------------------------------------------------------------

\* Number of turns of one invocation in which the backend or a tool departs
\* from the plain native tool call that succeeds (see ChatReturns).
MaxVaried == 1

\* Longest free token sequence, and most key/value pairs of an object, that
\* extractToolCallFromText is called with (see Texts).
MaxTextLen == 3
MaxPairs == 3

\* Most answers of provider.chat to one of two concurrent invocations
MaxConcurrentTurns == 2

\* Most calls of client.messages.create
MaxSent == 2

\* Most channel plugins
MaxChannels == 2

\* Most SIGINTs the process receives
MaxSignals == 3

\* Most characters of a text splitSmsChunks is called with
MaxSmsLen == 4

\* Largest maxLength splitSmsChunks is called with
MaxLength == 2

\* Most chunks splitSmsChunks is followed to
MaxChunks == 3

\* ------------------------------------------------------------------------
\* Generic helpers
\* ------------------------------------------------------------------------

Range(s) == { s[k] : k \in 1..Len(s) }

SelectNames(s, keep) == SelectSeq(s, LAMBDA n : n \in keep)

EmptyMap == [k \in {} |-> ""]

\* ------------------------------------------------------------------------
\* JavaScript values
\* ------------------------------------------------------------------------

JsUndefined == [t |-> "undefined", s |-> <<>>, a |-> <<>>]
JsString(chars) == [t |-> "string", s |-> chars, a |-> <<>>]
JsNumber == [t |-> "number", s |-> <<>>, a |-> <<>>]
JsArray(items) == [t |-> "array", s |-> <<>>, a |-> items]

IsNullish(v) == v.t = "undefined"

\* String.prototype.trim on a sequence of characters
RECURSIVE TrimLeft(_)
TrimLeft(s) ==
    IF s = <<>> THEN <<>>
    ELSE IF Head(s) = " " THEN TrimLeft(Tail(s)) ELSE s

RECURSIVE TrimRight(_)
TrimRight(s) ==
    IF s = <<>> THEN <<>>
    ELSE IF s[Len(s)] = " " THEN TrimRight(SubSeq(s, 1, Len(s) - 1)) ELSE s

Trim(s) == TrimRight(TrimLeft(s))

\* `!v?.trim()`: "reject" (the guard is true), "pass", or "throw" when v is
\* neither nullish nor a string (v.trim is then not a function).
TrimCheck(v) ==
    IF IsNullish(v) THEN "reject"
    ELSE IF v.t = "string"
         THEN (IF Trim(v.s) = <<>> THEN "reject" ELSE "pass")
         ELSE "throw"

\* JavaScript truthiness of the values used here (JsNumber is a non-zero number)
Truthy(v) ==
    CASE v.t = "undefined" -> FALSE
      [] v.t = "string" -> v.s # <<>>
      [] OTHER -> TRUE

\* Values a callee can raise: an Error object, a string, or null.
RaisedValues == {"Error", "string", "null"}

\* `(err as Error).message` inside a template string; reading .message of null
\* itself raises a TypeError.
MessageThrows(v) == v = "null"

MessageOf(v) ==
    CASE v = "Error" -> "boom"
      [] v = "TypeError" -> "Cannot read properties of null (reading 'message')"
      [] v = "Timeout" -> "Sub-agent timed out"
      [] OTHER -> "undefined"

\* ------------------------------------------------------------------------
\* Tool call parsing helpers
\* ------------------------------------------------------------------------

\* String.prototype.indexOf / lastIndexOf on a token sequence; positions are
\* 1-based and 0 stands for JavaScript's -1.
IndexOf(text, tok) ==
    LET hits == { k \in 1..Len(text) : text[k] = tok }
    IN IF hits = {} THEN 0 ELSE CHOOSE k \in hits : \A j \in hits : k <= j

LastIndexOf(text, tok) ==
    LET hits == { k \in 1..Len(text) : text[k] = tok }
    IN IF hits = {} THEN 0 ELSE CHOOSE k \in hits : \A j \in hits : k >= j

Punctuation == {"{", "}", ":", ","}

\* JSON.parse of a token slice: an object is "{", then key ":" value pairs
\* separated by ",", then "}".  A later duplicate key overrides an earlier one.
\* Anything else is a parse failure.
JsonParses(raw) ==
    /\ Len(raw) >= 2
    /\ raw[1] = "{"
    /\ raw[Len(raw)] = "}"
    /\ LET n == Len(raw) - 2
       IN \/ n = 0
          \/ /\ n % 4 = 3
             /\ \A k \in 1..n :
                  CASE k % 4 = 1 -> raw[k + 1] \notin Punctuation
                    [] k % 4 = 2 -> raw[k + 1] = ":"
                    [] k % 4 = 3 -> raw[k + 1] \notin Punctuation
                    [] OTHER -> raw[k + 1] = ","

JsonObject(raw) ==
    LET n == Len(raw) - 2
        keyPos == { k \in 1..n : k % 4 = 1 }
        keys == { raw[k + 1] : k \in keyPos }
        lastPos(key) == CHOOSE k \in keyPos :
                          /\ raw[k + 1] = key
                          /\ \A j \in keyPos : raw[j + 1] = key => j <= k
    IN [key \in keys |-> raw[lastPos(key) + 3]]

\* normalizeToolArguments that looks at path before file_path
normalizeToolArgumentsPathFirst(args) ==
    IF "filename" \in DOMAIN args THEN args
    ELSE IF "path" \in DOMAIN args
    THEN [k \in DOMAIN args \cup {"filename"} |->
             IF k = "filename" THEN args["path"] ELSE args[k]]
    ELSE IF "file_path" \in DOMAIN args
    THEN [k \in DOMAIN args \cup {"filename"} |->
             IF k = "filename" THEN args["file_path"] ELSE args[k]]
    ELSE args

normalizeToolArguments(args) ==
    LET withFilePath ==
            IF "filename" \notin DOMAIN args /\ "file_path" \in DOMAIN args
            THEN [k \in DOMAIN args \cup {"filename"} |->
                     IF k = "filename" THEN args["file_path"] ELSE args[k]]
            ELSE args
    IN IF "filename" \notin DOMAIN withFilePath /\ "path" \in DOMAIN withFilePath
       THEN [k \in DOMAIN withFilePath \cup {"filename"} |->
                IF k = "filename" THEN withFilePath["path"] ELSE withFilePath[k]]
       ELSE withFilePath

\* The null result of extractToolCallFromText (a real call never has an empty name)
NoCall == [id |-> 0, name |-> "", arguments |-> EmptyMap]

\* The value tokens of a parsed object: a token stands for the JSON string of
\* that text, except the token of the empty array and the token of an object
\* whose own toString is not callable.
EmptyArrayToken == "[]"
UnprintableToken == "{toString:0}"

\* String(v) raises a TypeError: the object cannot be converted to a primitive
StringRaises(v) == v = UnprintableToken

\* String(v) where it returns: a string is itself, [] gives the empty text
StringOf(v) == IF v = EmptyArrayToken THEN "" ELSE v

\* start === -1 || end === -1 || end <= start does not hold
HasSlice(text) ==
    LET start == IndexOf(text, "{")
        end == LastIndexOf(text, "}")
    IN text # <<>> /\ start # 0 /\ end # 0 /\ end > start

\* RawSlice that stops before the last "}"
RawSliceExclusive(text) ==
    SubSeq(text, IndexOf(text, "{"), LastIndexOf(text, "}") - 1)

\* text.slice(start, end + 1)
RawSlice(text) == SubSeq(text, IndexOf(text, "{"), LastIndexOf(text, "}"))

\* ActionKey that takes the last alias key present
ActionKeyLastPresent(parsed) ==
    LET present == { k \in 1..Len(TOOL_ACTION_KEYS) :
                       TOOL_ACTION_KEYS[k] \in DOMAIN parsed }
    IN IF present = {} THEN ""
       ELSE TOOL_ACTION_KEYS[CHOOSE k \in present : \A j \in present : k >= j]

\* TOOL_ACTION_KEYS.find((key) => key in parsed); "" stands for undefined
ActionKey(parsed) ==
    LET present == { k \in 1..Len(TOOL_ACTION_KEYS) :
                       TOOL_ACTION_KEYS[k] \in DOMAIN parsed }
    IN IF present = {} THEN ""
       ELSE TOOL_ACTION_KEYS[CHOOSE k \in present : \A j \in present : k <= j]

\* RestArguments that leaves out only the action key
RestArgumentsDropAction(parsed) ==
    [k \in DOMAIN parsed \ {"action"} |-> parsed[k]]

\* const { action, tool, name, ...rest } = parsed
RestArguments(parsed) ==
    [k \in DOMAIN parsed \ {"action", "tool", "name"} |-> parsed[k]]

\* extractToolCallFromText(text) raises: String(parsed[actionKey]) is outside
\* the try block
ExtractRaises(text) ==
    /\ HasSlice(text)
    /\ JsonParses(RawSlice(text))
    /\ LET parsed == JsonObject(RawSlice(text))
       IN ActionKey(parsed) # "" /\ StringRaises(parsed[ActionKey(parsed)])

\* What extractToolCallFromText(text) returns when it does not raise; uuid is
\* the value crypto.randomUUID() gives.
extractToolCallFromText(text, uuid) ==
    IF ~HasSlice(text) THEN NoCall
    ELSE
      LET raw == RawSlice(text)
      IN IF ~JsonParses(raw) THEN NoCall
         ELSE
           LET parsed == JsonObject(raw)
               actionKey == ActionKey(parsed)
               toolName == IF actionKey # "" THEN StringOf(parsed[actionKey])
                           ELSE ""
           IN IF toolName = "" \/ StringRaises(toolName) THEN NoCall
              ELSE [id |-> uuid, name |-> toolName,
                    arguments |-> normalizeToolArguments(RestArguments(parsed))]

\* ------------------------------------------------------------------------
\* Tool execution helper: the lookup of executeToolCall
\* ------------------------------------------------------------------------

\* ToolFound looking the name up in the whole catalog
ToolFoundInCatalog(toolList, call) ==
    call.name \in {"heartware_read", "memory_recall", "shell_exec", "delegate_task"}

\* tools.find((t) => t.name === toolCall.name) finds a tool
ToolFound(toolList, call) == call.name \in Range(toolList)

\* ToolNotFoundText that does not say which tool was asked for
ToolNotFoundTextUnnamed(call) == <<"Error: Tool not found">>

\* `Error: Tool "<name>" not found`
ToolNotFoundText(call) == <<"Error: Tool \"", call.name, "\" not found">>

\* `Error: ${(err as Error).message}`
ToolErrorText(v) == <<"Error: ", MessageOf(v)>>

\* ------------------------------------------------------------------------
\* The environment: tool catalog, arguments, backend responses
\* ------------------------------------------------------------------------

\* config.allTools: the tools of the primary agent, delegate_task among them
AllTools == <<"heartware_read", "memory_recall", "shell_exec", "delegate_task">>

\* config.defaultSubAgentTools: absent, or an override
DefaultSubAgentToolsValues ==
    {JsUndefined, JsArray(<<"heartware_read", "delegate_task">>)}

TaskValues ==
    {JsUndefined, JsString(<<>>), JsString(<<" ", " ">>),
     JsString(<<"g", "o">>), JsNumber}

RoleValues == {JsUndefined, JsString(<<" ">>), JsString(<<"R">>), JsNumber}

TierValues == {JsUndefined, JsString(<<"reasoning">>), JsString(<<"bogus">>)}

ToolsValues ==
    {JsUndefined, JsArray(<<"delegate_task", "shell_exec">>), JsNumber}

Call(id, name) == [id |-> id, name |-> name, arguments |-> EmptyMap]

NoResponse == [type |-> "none", content |-> <<>>, toolCalls |-> <<>>]

TextResponse(content) ==
    [type |-> "text", content |-> content, toolCalls |-> <<>>]

NativeResponse(calls) ==
    [type |-> "tool_calls", content |-> <<>>, toolCalls |-> calls]

\* The response that costs nothing of MaxVaried: one native call of a tool
\* every configuration grants.
PlainResponse == NativeResponse(<<Call(101, "heartware_read")>>)

Responses ==
    { TextResponse(<<"Done.">>),
      TextResponse(<<"{", "oops", "}">>),
      TextResponse(<<"{", "foo", ":", "bar", "}">>),
      TextResponse(<<"Sure", "{", "action", ":", "heartware_read", ",",
                     "path", ":", "a.md", "}", "ok">>),
      TextResponse(<<"{", "tool", ":", "shell_exec", "}">>),
      TextResponse(<<"{", "action", ":", UnprintableToken, "}">>),
      PlainResponse,
      NativeResponse(<<Call(102, "delegate_task"), Call(101, "heartware_read")>>),
      NativeResponse(<<>>) }

\* A text response with no extractable tool call: the final answer
IsFinalText(resp) ==
    /\ resp.type = "text"
    /\ ~ExtractRaises(resp.content)
    /\ extractToolCallFromText(resp.content, 1) = NoCall

ResponseCost(resp) ==
    IF resp = PlainResponse \/ IsFinalText(resp) THEN 0 ELSE 1

\* What a tool's execute returns
ToolOutput == <<"ok">>

\* ------------------------------------------------------------------------
\* State
\* ------------------------------------------------------------------------

VARIABLES
    args,                  \* the argument mapping of execute
    defaultSubAgentTools,  \* config.defaultSubAgentTools
    pc,                    \* execute: start, routing, running, returned, thrown
    result,                \* the text execute returned
    provider,              \* id of the resolved provider
    routerCalls,           \* calls of orchestrator.routeWithHealth
    tools,                 \* the tool list handed to runSubAgent
    messages,              \* the message history
    i,                     \* the loop index of run
    iterations,            \* runSubAgent's `iterations`
    lpc,                   \* run: idle, chat, tool, returned, raised
    turn,                  \* content of this turn's response, and its kind
    pending,               \* native calls of this turn not yet executed
    curCall,               \* the tool call in flight
    loopResult,            \* what run returned
    loopRaised,            \* what run raised
    timerFired,            \* the setTimeout callback has run
    winner,                \* what settled Promise.race: none, loop, timer
    spc,                   \* runSubAgent: idle, racing, returned, thrown
    outcome,               \* what runSubAgent returned
    chatCalls,             \* calls of provider.chat
    executed,              \* names of the tools whose execute was invoked
    completedCalls,        \* calls of executeToolCall that returned
    nextUuid,              \* the next value of crypto.randomUUID()
    varied,                \* spent part of MaxVaried
    lastResp,              \* the last response provider.chat gave
    turnsCompleted,        \* turns of run that ran to their end
    xText,                 \* the text extractToolCallFromText is called with
    xpc,                   \* "off", "ready", "returned" or "raised"
    xCall,                 \* what extractToolCallFromText returned
    nArgs,                 \* the mapping normalizeToolArguments is called with
    npc,                   \* "off", "ready", "once" or "twice"
    nOut,                  \* what normalizeToolArguments(nArgs) returned
    nTwice,                \* what normalizeToolArguments(nOut) returned
    cMessages,             \* two invocations: the messages array of each scope
    cIterations,           \* two invocations: the iterations counter of each scope
    cLocal,                \* two invocations: the other locals of each invocation
    cLog,                  \* two invocations: what happened to each, in order
    tEnabled,              \* config channels.telnyx.enabled
    tPhone,                \* config channels.telnyx.phoneNumber
    tApiKey,               \* secret channel.telnyx.apiKey
    tPlugins,              \* config plugins.enabled
    tPlugins0,             \* plugins.enabled before the first call
    pPc,                   \* telnyx_pair: "idle" or "storing"
    pArgs,                 \* telnyx_pair: apiKey and phoneNumber of the call
    sPc,                   \* telnyx_send_sms: "idle", "retrieving", "importing", "sending"
    sPhone,                \* telnyx_send_sms: phoneNumber as read from the config
    sLeft,                 \* telnyx_send_sms: chunks not yet handed to the client
    tSent,                 \* calls of client.messages.create
    tLast,                 \* the call that ended last, and how
    hChannels,             \* plugins.channels.length
    hWebUI,                \* the method webUI has: "stop", "close" or "none"
    hLearning,             \* learning has a close method
    hHeartware,            \* heartwareManager has a close method
    isShuttingDown,        \* the flag of the SIGINT handler
    hPc,                   \* the SIGINT handler: where it is
    hChannel,              \* index of the channel the loop is at
    stopped,               \* the resources whose stop or close was called, in order
    failed,                \* the resources whose stop or close raised
    signals,               \* SIGINTs received
    ignored,               \* SIGINTs the handler returned from at once
    kText,                 \* splitSmsChunks: the text it is called with
    kMax,                  \* splitSmsChunks: maxLength
    kPc,                   \* splitSmsChunks: "off", "ready", "looping" or "returned"
    remaining,             \* splitSmsChunks: `remaining`
    chunks                 \* splitSmsChunks: `chunks`, or the list returned

extractVars == <<xText, xpc, xCall>>
normVars == <<nArgs, npc, nOut, nTwice>>
concVars == <<cMessages, cIterations, cLocal, cLog>>
telnyxConfigVars == <<tEnabled, tPhone, tApiKey, tPlugins, tPlugins0>>
pairVars == <<pPc, pArgs>>
sendVars == <<sPc, sPhone, sLeft, tSent>>
pairingVars == <<telnyxConfigVars, pairVars, sendVars, tLast>>
shutdownVars == <<hChannels, hWebUI, hLearning, hHeartware, isShuttingDown, hPc,
                  hChannel, stopped, failed, signals, ignored>>
splitVars == <<kText, kMax, kPc, remaining, chunks>>
pureVars == <<extractVars, normVars, concVars, pairingVars, shutdownVars, splitVars>>
inputVars == <<args, defaultSubAgentTools>>
entryVars == <<pc, result>>
resolveVars == <<provider, routerCalls, tools>>
guardVars == <<winner, spc, outcome>>
loopVars == <<messages, i, iterations, lpc, turn, pending, curCall,
              loopResult, loopRaised>>
countVars == <<chatCalls, executed, turnsCompleted, completedCalls>>
envVars == <<nextUuid, varied, lastResp>>

delegationVars == <<inputVars, entryVars, resolveVars, guardVars, loopVars,
                    countVars, envVars, timerFired>>
notPairingVars == <<extractVars, normVars, concVars, shutdownVars, splitVars, delegationVars>>
notShutdownVars == <<extractVars, normVars, concVars, pairingVars, splitVars,
                     delegationVars>>
notSplitVars == <<extractVars, normVars, concVars, pairingVars, shutdownVars,
                  delegationVars>>
vars == <<pureVars, inputVars, entryVars, resolveVars, guardVars, loopVars, countVars,
          envVars, timerFired>>

NoOutcome ==
    [success |-> FALSE, response |-> <<>>, iterations |-> 0, providerId |-> ""]

NoTurn == [content |-> <<>>, native |-> FALSE]

\* Nothing of an invocation of execute has run yet
Idle ==
    /\ pc = "start"
    /\ result = <<>>
    /\ provider = ""
    /\ routerCalls = 0
    /\ tools = <<>>
    /\ messages = <<>>
    /\ i = 0
    /\ iterations = 0
    /\ lpc = "idle"
    /\ turn = NoTurn
    /\ pending = <<>>
    /\ curCall = NoCall
    /\ loopResult = NoOutcome
    /\ loopRaised = "none"
    /\ timerFired = FALSE
    /\ winner = "none"
    /\ spc = "idle"
    /\ outcome = NoOutcome
    /\ chatCalls = 0
    /\ executed = {}
    /\ completedCalls = 0
    /\ nextUuid = 1
    /\ varied = 0
    /\ lastResp = NoResponse
    /\ turnsCompleted = 0

\* No call of extractToolCallFromText on its own
ExtractOff ==
    /\ xText = <<>>
    /\ xpc = "off"
    /\ xCall = NoCall

\* No call of normalizeToolArguments on its own
NormalizeOff ==
    /\ nArgs = EmptyMap
    /\ npc = "off"
    /\ nOut = EmptyMap
    /\ nTwice = EmptyMap

NoPairArgs == [apiKey |-> JsUndefined, phoneNumber |-> JsUndefined]
NoCallYet == [op |-> "none", kind |-> "none"]

\* No call of a Telnyx pairing tool is in flight
PairingIdle ==
    /\ pPc = "idle"
    /\ pArgs = NoPairArgs
    /\ sPc = "idle"
    /\ sPhone = JsUndefined
    /\ sLeft = 0
    /\ tSent = 0
    /\ tLast = NoCallYet

\* The Telnyx pairing tools are not looked at
PairingOff ==
    /\ tEnabled = "undefined"
    /\ tPhone = JsUndefined
    /\ tApiKey = JsUndefined
    /\ tPlugins = JsUndefined
    /\ tPlugins0 = JsUndefined
    /\ PairingIdle

\* No call of splitSmsChunks
SplitOff ==
    /\ kText = <<>>
    /\ kMax = 0
    /\ kPc = "off"
    /\ remaining = <<>>
    /\ chunks = <<>>

\* The SIGINT handler is not looked at
ShutdownOff ==
    /\ hChannels = 0
    /\ hWebUI = "none"
    /\ hLearning = FALSE
    /\ hHeartware = FALSE
    /\ isShuttingDown = FALSE
    /\ hPc = "off"
    /\ hChannel = 0
    /\ stopped = <<>>
    /\ failed = {}
    /\ signals = 0
    /\ ignored = 0

\* No pair of concurrent invocations
ConcurrentOff ==
    /\ cMessages = <<>>
    /\ cIterations = <<>>
    /\ cLocal = <<>>
    /\ cLog = <<>>

Init ==
    /\ args \in [task : TaskValues, role : RoleValues,
                 tier : TierValues, tools : ToolsValues]
    /\ defaultSubAgentTools \in DefaultSubAgentToolsValues
    /\ Idle
    /\ ExtractOff
    /\ NormalizeOff
    /\ ConcurrentOff
    /\ PairingOff
    /\ ShutdownOff
    /\ SplitOff

\* ------------------------------------------------------------------------
\* runSubAgent: the pieces of its code
\* ------------------------------------------------------------------------

\* The seed history: the system prompt and the task
SeedMessages(role, task) ==
    << [role |-> "system",
        content |-> <<"You are a focused sub-agent with the role: ">> \o role
                    \o <<". Complete the following task ...">>,
        toolCalls |-> <<>>, toolCallId |-> 0],
       [role |-> "user", content |-> task, toolCalls |-> <<>>,
        toolCallId |-> 0] >>

\* AssistantMessage that attaches the call whichever way it was found
AssistantMessageWithCall(turnRec, call) ==
    [role |-> "assistant", content |-> turnRec.content,
     toolCalls |-> <<call>>,
     toolCallId |-> 0]

\* The assistant message pushed for one executed call: the raw text alone for
\* a call extracted from text, the single call attached for a native call.
AssistantMessage(turnRec, call) ==
    [role |-> "assistant", content |-> turnRec.content,
     toolCalls |-> IF turnRec.native THEN <<call>> ELSE <<>>,
     toolCallId |-> 0]

ToolMessage(call, text) ==
    [role |-> "tool", content |-> text, toolCalls |-> <<>>,
     toolCallId |-> call.id]

\* PushResult that pushes the tool-result message alone
PushResultToolOnly(msgs, turnRec, call, text) ==
    msgs \o <<ToolMessage(call, text)>>

\* The two messages.push calls after executeToolCall returned
PushResult(msgs, turnRec, call, text) ==
    msgs \o <<AssistantMessage(turnRec, call), ToolMessage(call, text)>>

\* LoopCondition with the comparison off by one
LoopConditionOffByOne(idx) == idx <= SUB_AGENT_MAX_ITERATIONS

\* `i < SUB_AGENT_MAX_ITERATIONS`, the loop condition of run
LoopCondition(idx) == idx < SUB_AGENT_MAX_ITERATIONS

\* IterationsAt counting only the turns already over
IterationsAtCompleted(idx) == idx

\* `iterations = i + 1`
IterationsAt(idx) == idx + 1

\* FinalOutcome reporting the loop index instead of the turn number
FinalOutcomeZeroBased(content, its, providerId) ==
    [success |-> TRUE, response |-> content, iterations |-> its - 1,
     providerId |-> providerId]

\* The outcome of a final text response
FinalOutcome(content, its, providerId) ==
    [success |-> TRUE, response |-> content, iterations |-> its,
     providerId |-> providerId]

ExhaustedText ==
    <<"Sub-agent reached maximum iterations without completing the task.">>

\* The outcome after the loop ran out of iterations
ExhaustedOutcome(its, providerId) ==
    [success |-> FALSE, response |-> ExhaustedText, iterations |-> its,
     providerId |-> providerId]

\* The outcome the catch block of runSubAgent builds from a raised value
CatchOutcome(v, its, providerId) ==
    [success |-> FALSE, response |-> <<"Sub-agent error: ", MessageOf(v)>>,
     iterations |-> its, providerId |-> providerId]

\* RacePending for a guard that lets a later settlement through
RacePendingAlways(w) == TRUE

\* Promise.race is still pending: the first settlement decides it
RacePending(w) == w = "none"

\* ------------------------------------------------------------------------
\* createDelegationTool.execute: the pieces of its code
\* ------------------------------------------------------------------------

TaskErrorText == <<"Error: ", "task must be a non-empty string.">>
RoleErrorText == <<"Error: ", "role must be a non-empty string.">>
ResolveErrorText(v) == <<"Error resolving provider: ", MessageOf(v)>>

\* The tier tokens the registry knows
Tiers == {<<"simple">>, <<"moderate">>, <<"complex">>, <<"reasoning">>}

\* orchestrator.getRegistry().getForTier(tier) raises for a value that is not
\* one of the tier tokens
GetForTierRaises(tier) == tier.t # "string" \/ tier.s \notin Tiers

GetForTier(tier) ==
    CASE tier.s = <<"simple">> -> "provider-simple"
      [] tier.s = <<"moderate">> -> "provider-moderate"
      [] tier.s = <<"complex">> -> "provider-complex"
      [] OTHER -> "provider-reasoning"

\* The provider orchestrator.routeWithHealth(task) resolves to
RoutedProvider == "provider-auto"

\* SafeToolNames that ignores the configured override
SafeToolNamesIgnoreConfig(configured) == DEFAULT_SAFE_TOOLS

\* config.defaultSubAgentTools ?? DEFAULT_SAFE_TOOLS
SafeToolNames(configured) ==
    IF IsNullish(configured) THEN DEFAULT_SAFE_TOOLS ELSE configured.a

\* (args.tools as string[]) || []
AdditionalToolNames(v) == IF Truthy(v) THEN v ELSE JsArray(<<>>)

\* `...additionalToolNames` raises a TypeError for a value that is not iterable
SpreadRaises(v) == v.t \notin {"array", "string"}

SpreadItems(v) == IF v.t = "array" THEN v.a ELSE v.s

\* AllowedToolNames without the removal of delegate_task
AllowedToolNamesKeepDelegate(safe, additional) ==
    Range(safe) \cup Range(additional)

\* new Set([...safeToolNames, ...additionalToolNames]) after
\* delete('delegate_task')
AllowedToolNames(safe, additional) ==
    (Range(safe) \cup Range(additional)) \ {DELEGATE_TASK}

\* allTools.filter((t) => allowedToolNames.has(t.name))
SubAgentTools(safe, additional) ==
    SelectNames(AllTools, AllowedToolNames(safe, additional))

\* FormatResult whose failure header names the backend too
FormatResultWithBackend(role, res) ==
    <<"[Sub-agent (">> \o role \o
    <<IF res.success THEN ") completed in " ELSE ") failed after ",
      ToString(res.iterations), " iteration(s) via ", res.providerId, "]\n\n">>
    \o (IF res.success THEN <<>> ELSE <<"Error: ">>) \o res.response

\* The text execute returns for an outcome of runSubAgent
FormatResult(role, res) ==
    IF res.success
    THEN <<"[Sub-agent (">> \o role \o
         <<") completed in ", ToString(res.iterations), " iteration(s) via ",
           res.providerId, "]\n\n">> \o res.response
    ELSE <<"[Sub-agent (">> \o role \o
         <<") failed after ", ToString(res.iterations), " iteration(s)]\n\n",
           "Error: ">> \o res.response

\* ------------------------------------------------------------------------
\* The timeout guard of runSubAgent and the tail of execute
\* ------------------------------------------------------------------------

\* run() resolved with res.  If the race is still pending runSubAgent returns
\* res and execute returns its formatted text.
GuardResolves(res) ==
    IF RacePending(winner)
    THEN /\ winner' = "loop"
         /\ spc' = "returned"
         /\ outcome' = res
         /\ pc' = "returned"
         /\ result' = FormatResult(args.role.s, res)
    ELSE UNCHANGED <<winner, spc, outcome, pc, result>>

\* run() (who = "loop") or the timer (who = "timer") rejected with v.  If the
\* race is still pending the catch block runs; reading v.message may itself
\* raise, and then runSubAgent and execute both reject.
GuardRejects(who, v, its) ==
    IF RacePending(winner)
    THEN /\ winner' = who
         /\ IF MessageThrows(v)
            THEN /\ spc' = "thrown"
                 /\ pc' = "thrown"
                 /\ UNCHANGED <<outcome, result>>
            ELSE /\ spc' = "returned"
                 /\ outcome' = CatchOutcome(v, its, provider)
                 /\ pc' = "returned"
                 /\ result' = FormatResult(args.role.s,
                                           CatchOutcome(v, its, provider))
    ELSE UNCHANGED <<winner, spc, outcome, pc, result>>

\* ------------------------------------------------------------------------
\* The loop of run, from a resumption to the next await
\* ------------------------------------------------------------------------

\* run raises v
LoopRaises(v) ==
    /\ lpc' = "raised"
    /\ loopRaised' = v
    /\ UNCHANGED <<messages, i, iterations, turn, pending, curCall, loopResult,
                   countVars>>
    /\ GuardRejects("loop", v, iterations)

\* run returns the final text
FinalReturn(content) ==
    /\ lpc' = "returned"
    /\ loopResult' = FinalOutcome(content, iterations, provider)
    /\ turnsCompleted' = turnsCompleted + 1
    /\ UNCHANGED <<messages, i, iterations, turn, pending, curCall, loopRaised,
                   chatCalls, executed, completedCalls>>
    /\ GuardResolves(FinalOutcome(content, iterations, provider))

\* `continue`: the next iteration calls provider.chat, or the loop is over.
\* done is the number of executeToolCall calls that returned since the last
\* await.
NextTurn(msgs, done) ==
    /\ messages' = msgs
    /\ completedCalls' = completedCalls + done
    /\ i' = i + 1
    /\ turn' = NoTurn
    /\ pending' = <<>>
    /\ curCall' = NoCall
    /\ turnsCompleted' = turnsCompleted + 1
    /\ UNCHANGED <<loopRaised, executed>>
    /\ IF LoopCondition(i + 1)
       THEN /\ iterations' = IterationsAt(i + 1)
            /\ chatCalls' = chatCalls + 1
            /\ lpc' = "chat"
            /\ UNCHANGED <<loopResult, guardVars, entryVars>>
       ELSE /\ lpc' = "returned"
            /\ loopResult' = ExhaustedOutcome(iterations, provider)
            /\ UNCHANGED <<iterations, chatCalls>>
            /\ GuardResolves(ExhaustedOutcome(iterations, provider))

\* SkipMissing that goes to the next call without pushing the two messages
RECURSIVE SkipMissingNoPush(_, _, _, _)
SkipMissingNoPush(msgs, calls, turnRec, toolList) ==
    IF calls = <<>> \/ ToolFound(toolList, Head(calls))
    THEN [msgs |-> msgs, calls |-> calls]
    ELSE SkipMissingNoPush(msgs, Tail(calls), turnRec, toolList)

\* executeToolCall for the leading calls that name no tool of the list: each
\* gives its "not found" text at once, and its two messages are pushed.
RECURSIVE SkipMissing(_, _, _, _)
SkipMissing(msgs, calls, turnRec, toolList) ==
    IF calls = <<>> \/ ToolFound(toolList, Head(calls))
    THEN [msgs |-> msgs, calls |-> calls]
    ELSE SkipMissing(
           PushResult(msgs, turnRec, Head(calls), ToolNotFoundText(Head(calls))),
           Tail(calls), turnRec, toolList)

\* Execute the calls of this turn in list order up to the first one whose
\* tool is found: its execute is invoked and awaited.
ProcessCalls(msgs, calls, turnRec, done) ==
    LET sk == SkipMissing(msgs, calls, turnRec, tools)
        skipped == Len(calls) - Len(sk.calls)
    IN IF sk.calls # <<>>
       THEN /\ lpc' = "tool"
            /\ completedCalls' = completedCalls + done + skipped
            /\ curCall' = Head(sk.calls)
            /\ pending' = Tail(sk.calls)
            /\ messages' = sk.msgs
            /\ turn' = turnRec
            /\ executed' = executed \cup {Head(sk.calls).name}
            /\ UNCHANGED <<i, iterations, loopResult, loopRaised, chatCalls,
                           turnsCompleted, guardVars, entryVars>>
       ELSE NextTurn(sk.msgs, done + skipped)

\* provider.chat resolves with resp
ChatReturns ==
    \E resp \in Responses :
      /\ lpc = "chat"
      /\ varied + ResponseCost(resp) <= MaxVaried
      /\ varied' = varied + ResponseCost(resp)
      /\ lastResp' = resp
      /\ UNCHANGED <<pureVars, inputVars, resolveVars, timerFired>>
      /\ IF resp.type = "text"
         THEN LET toolCall == extractToolCallFromText(resp.content, nextUuid)
              IN IF ExtractRaises(resp.content)
                 THEN /\ nextUuid' = nextUuid
                      /\ LoopRaises("Error")
                 ELSE IF toolCall.name # ""
                 THEN /\ nextUuid' = nextUuid + 1
                      /\ ProcessCalls(messages, <<toolCall>>,
                                      [content |-> resp.content, native |-> FALSE],
                                      0)
                 ELSE /\ nextUuid' = nextUuid
                      /\ FinalReturn(resp.content)
         ELSE /\ nextUuid' = nextUuid
              /\ IF resp.type = "tool_calls" /\ Len(resp.toolCalls) > 0
                 THEN ProcessCalls(messages, resp.toolCalls,
                                   [content |-> resp.content, native |-> TRUE], 0)
                 ELSE NextTurn(messages, 0)

\* provider.chat rejects with v
ChatRaises ==
    \E v \in RaisedValues :
      /\ lpc = "chat"
      /\ LoopRaises(v)
      /\ UNCHANGED <<pureVars, inputVars, resolveVars, envVars, timerFired>>

\* tool.execute resolves
ToolReturns ==
    /\ lpc = "tool"
    /\ ProcessCalls(PushResult(messages, turn, curCall, ToolOutput), pending, turn,
                    1)
    /\ UNCHANGED <<pureVars, inputVars, resolveVars, envVars, timerFired>>

\* tool.execute raises v: the catch block of executeToolCall turns it into a
\* text, unless reading v.message raises, which leaves executeToolCall and run.
ToolRaises ==
    \E v \in RaisedValues :
      /\ lpc = "tool"
      /\ UNCHANGED <<pureVars, inputVars, resolveVars, nextUuid, lastResp, timerFired>>
      /\ IF MessageThrows(v)
         THEN /\ varied' = varied
              /\ LoopRaises("TypeError")
         ELSE /\ varied < MaxVaried
              /\ varied' = varied + 1
              /\ ProcessCalls(PushResult(messages, turn, curCall, ToolErrorText(v)),
                              pending, turn, 1)

\* The setTimeout callback runs: it rejects its promise with the timeout error
TimerFires ==
    /\ spc # "idle"
    /\ ~timerFired
    /\ timerFired' = TRUE
    /\ GuardRejects("timer", "Timeout", iterations)
    /\ UNCHANGED <<pureVars, inputVars, resolveVars, loopVars, countVars, envVars>>

\* ------------------------------------------------------------------------
\* execute of the delegate_task tool
\* ------------------------------------------------------------------------

\* runSubAgent up to its first await: the seed history, the timer, and the
\* first call of provider.chat
StartSubAgent(toolList) ==
    /\ tools' = toolList
    /\ pc' = "running"
    /\ spc' = "racing"
    /\ messages' = SeedMessages(args.role.s, args.task.s)
    /\ i' = 0
    /\ iterations' = IterationsAt(0)
    /\ lpc' = "chat"
    /\ chatCalls' = chatCalls + 1
    /\ UNCHANGED <<result, winner, outcome, turn, pending, curCall, loopResult,
                   loopRaised, executed, turnsCompleted, completedCalls>>

\* execute after the provider p is resolved: assemble the tools, run the
\* sub-agent
AfterResolve(p) ==
    /\ provider' = p
    /\ LET additional == AdditionalToolNames(args.tools)
       IN IF SpreadRaises(additional)
          THEN /\ pc' = "thrown"
               /\ UNCHANGED <<result, tools, guardVars, loopVars, countVars>>
          ELSE StartSubAgent(
                 SubAgentTools(SafeToolNames(defaultSubAgentTools),
                               SpreadItems(additional)))

Returns(text) ==
    /\ pc' = "returned"
    /\ result' = text
    /\ UNCHANGED <<resolveVars, guardVars, loopVars, countVars>>

\* UsesTierOverride for a lookup that always goes through the router
UsesTierOverrideNever(tier) == FALSE

\* `if (tierOverride)`: a tier was given, the registry is asked directly
UsesTierOverride(tier) == Truthy(tier)

\* execute from its call to its first await
Execute ==
    /\ pc = "start"
    /\ UNCHANGED <<pureVars, inputVars, envVars, timerFired>>
    /\ CASE TrimCheck(args.task) = "throw" ->
              /\ pc' = "thrown"
              /\ UNCHANGED <<result, resolveVars, guardVars, loopVars, countVars>>
         [] TrimCheck(args.task) = "reject" -> Returns(TaskErrorText)
         [] TrimCheck(args.task) = "pass" /\ TrimCheck(args.role) = "throw" ->
              /\ pc' = "thrown"
              /\ UNCHANGED <<result, resolveVars, guardVars, loopVars, countVars>>
         [] TrimCheck(args.task) = "pass" /\ TrimCheck(args.role) = "reject" ->
              Returns(RoleErrorText)
         [] OTHER ->
              IF UsesTierOverride(args.tier)
              THEN IF GetForTierRaises(args.tier)
                   THEN Returns(ResolveErrorText("Error"))
                   ELSE /\ AfterResolve(GetForTier(args.tier))
                        /\ UNCHANGED routerCalls
              ELSE /\ pc' = "routing"
                   /\ routerCalls' = routerCalls + 1
                   /\ UNCHANGED <<result, provider, tools, guardVars, loopVars,
                                  countVars>>

\* orchestrator.routeWithHealth resolves
RouteReturns ==
    /\ pc = "routing"
    /\ AfterResolve(RoutedProvider)
    /\ UNCHANGED <<pureVars, inputVars, envVars, timerFired, routerCalls>>

\* orchestrator.routeWithHealth rejects
RouteRaises ==
    /\ pc = "routing"
    /\ Returns(ResolveErrorText("Error"))
    /\ UNCHANGED <<pureVars, inputVars, envVars, timerFired>>

Next ==
    \/ Execute
    \/ RouteReturns
    \/ RouteRaises
    \/ ChatReturns
    \/ ChatRaises
    \/ ToolReturns
    \/ ToolRaises
    \/ TimerFires

Spec == Init /\ [][Next]_vars

\* ------------------------------------------------------------------------
\* extractToolCallFromText on its own: one call on a text
\* ------------------------------------------------------------------------

\* Free texts: every token sequence up to MaxTextLen over TextTokens
TextTokens == {"{", "}", ":", ",", "action", "read", ""}

FreeTexts == UNION { [1..n -> TextTokens] : n \in 0..MaxTextLen }

\* Texts that hold an object: words, then "{" key ":" value "," ... "}", then
\* words.  A brace before or after the object moves the slice's ends.
ObjectValues == {"read", "", EmptyArrayToken, UnprintableToken}

\* The key/value pairs of the objects: an alias key with any value, an
\* argument key with a text
ObjectPairs ==
    ({"action", "tool", "name"} \X ObjectValues)
        \cup ({"path", "query"} \X {"read", ""})
TextWrappers == {<< <<>>, <<>> >>, << <<"Sure:">>, <<"ok">> >>,
                 << <<"{">>, <<>> >>, << <<>>, <<"}">> >>}

ObjectText(pairs) ==
    IF Len(pairs) = 0 THEN <<"{", "}">>
    ELSE [k \in 1..(4 * Len(pairs) + 1) |->
            IF k = 1 THEN "{"
            ELSE IF k = 4 * Len(pairs) + 1 THEN "}"
            ELSE LET p == pairs[((k - 2) \div 4) + 1]
                 IN CASE (k - 2) % 4 = 0 -> p[1]
                      [] (k - 2) % 4 = 1 -> ":"
                      [] (k - 2) % 4 = 2 -> p[2]
                      [] OTHER -> ","]

ObjectTexts ==
    { w[1] \o ObjectText(pairs) \o w[2] :
        w \in TextWrappers,
        pairs \in UNION { [1..n -> ObjectPairs] :
                            n \in 0..MaxPairs } }

Texts == FreeTexts \cup ObjectTexts

\* execute is not called: its arguments are not looked at
IdleArgs ==
    /\ args = [task |-> JsUndefined, role |-> JsUndefined,
               tier |-> JsUndefined, tools |-> JsUndefined]
    /\ defaultSubAgentTools = JsUndefined

ExtractInit ==
    /\ IdleArgs
    /\ Idle
    /\ xText \in Texts
    /\ xpc = "ready"
    /\ xCall = NoCall
    /\ NormalizeOff
    /\ ConcurrentOff
    /\ PairingOff
    /\ ShutdownOff
    /\ SplitOff

\* One call of extractToolCallFromText(xText)
Extract ==
    /\ xpc = "ready"
    /\ IF ExtractRaises(xText)
       THEN xpc' = "raised" /\ xCall' = NoCall
       ELSE xpc' = "returned" /\ xCall' = extractToolCallFromText(xText, nextUuid)
    /\ UNCHANGED <<xText, normVars, concVars, pairingVars, shutdownVars, splitVars, delegationVars>>

ExtractNext == Extract

ExtractSpec == ExtractInit /\ [][ExtractNext]_vars

\* ------------------------------------------------------------------------
\* normalizeToolArguments on its own: one call on a mapping, and one more on
\* what it returned
\* ------------------------------------------------------------------------

ArgumentKeys == {"filename", "file_path", "path", "query"}
ArgumentValues == {"a.md", "b.md", "c.md"}

ArgumentMaps == UNION { [keys -> ArgumentValues] : keys \in SUBSET ArgumentKeys }

NormalizeInit ==
    /\ IdleArgs
    /\ Idle
    /\ ExtractOff
    /\ ConcurrentOff
    /\ PairingOff
    /\ ShutdownOff
    /\ SplitOff
    /\ nArgs \in ArgumentMaps
    /\ npc = "ready"
    /\ nOut = EmptyMap
    /\ nTwice = EmptyMap

\* normalizeToolArguments(nArgs)
Normalize ==
    /\ npc = "ready"
    /\ npc' = "once"
    /\ nOut' = normalizeToolArguments(nArgs)
    /\ UNCHANGED <<nArgs, nTwice, extractVars, concVars, pairingVars, shutdownVars, splitVars, delegationVars>>

\* normalizeToolArguments(nOut)
NormalizeAgain ==
    /\ npc = "once"
    /\ npc' = "twice"
    /\ nTwice' = normalizeToolArguments(nOut)
    /\ UNCHANGED <<nArgs, nOut, extractVars, concVars, pairingVars, shutdownVars, splitVars, delegationVars>>

NormalizeNext ==
    \/ Normalize
    \/ NormalizeAgain

NormalizeSpec == NormalizeInit /\ [][NormalizeNext]_vars

\* ------------------------------------------------------------------------
\* Two invocations of runSubAgent at once.  Each invocation is stepped by the
\* event that resumes it: its start, a response of provider.chat, the end of
\* tool.execute, its timer.
\* ------------------------------------------------------------------------

Invocations == {1, 2}

\* The task each invocation is given
ConcurrentTask(k) == IF k = 1 THEN <<"task-1">> ELSE <<"task-2">>

\* args.tools of each invocation: the second one asks for shell_exec
ConcurrentAdditional(k) == IF k = 1 THEN <<>> ELSE <<"shell_exec">>

\* What provider.chat answers an invocation
ConcurrentResponses ==
    { TextResponse(<<"Done.">>),
      NativeResponse(<<Call(101, "heartware_read")>>),
      NativeResponse(<<Call(103, "shell_exec")>>) }

\* The locals of an invocation that has not started
NotStarted ==
    [tools |-> <<>>, provider |-> "", messages |-> <<>>, i |-> 0,
     iterations |-> 0, lpc |-> "idle", curCall |-> NoCall, turn |-> NoTurn,
     winner |-> "none", outcome |-> NoOutcome, timerFired |-> FALSE]

\* Promise.race settles for `who` with res, unless it is settled already
Settle(st, who, res) ==
    IF RacePending(st.winner)
    THEN [st EXCEPT !.winner = who, !.outcome = res]
    ELSE st

\* `continue` with the history msgs: the next turn, or the end of the loop
ContinueLoop(st, msgs) ==
    LET st2 == [st EXCEPT !.messages = msgs, !.i = st.i + 1,
                          !.curCall = NoCall, !.turn = NoTurn]
    IN IF LoopCondition(st.i + 1)
       THEN [st2 EXCEPT !.iterations = IterationsAt(st.i + 1), !.lpc = "chat"]
       ELSE Settle([st2 EXCEPT !.lpc = "returned"], "loop",
                   ExhaustedOutcome(st.iterations, st.provider))

\* One resumption of an invocation with locals st
InvocationStep(st, ev) ==
    CASE ev.type = "start" ->
           [st EXCEPT !.tools = ev.tools, !.provider = RoutedProvider,
                      !.messages = SeedMessages(<<"R">>, ev.task),
                      !.i = 0, !.iterations = IterationsAt(0), !.lpc = "chat"]
      [] ev.type = "chat" ->
           IF ev.resp.type = "text"
           THEN Settle([st EXCEPT !.lpc = "returned"], "loop",
                       FinalOutcome(ev.resp.content, st.iterations, st.provider))
           ELSE LET call == ev.resp.toolCalls[1]
                    turnRec == [content |-> ev.resp.content, native |-> TRUE]
                IN IF ToolFound(st.tools, call)
                   THEN [st EXCEPT !.lpc = "tool", !.curCall = call,
                                   !.turn = turnRec]
                   ELSE ContinueLoop(st, PushResult(st.messages, turnRec, call,
                                                    ToolNotFoundText(call)))
      [] ev.type = "toolDone" ->
           ContinueLoop(st, PushResult(st.messages, st.turn, st.curCall,
                                       ToolOutput))
      [] OTHER ->
           Settle([st EXCEPT !.timerFired = TRUE], "timer",
                  CatchOutcome("Timeout", st.iterations, st.provider))

\* Scope that is one and the same for every invocation
ScopeShared(k) == 1

\* The scope that holds `messages` and `iterations` of invocation k: both
\* are declared in the body of runSubAgent, so each call has its own
Scope(k) == k

\* The locals of invocation k as it reads them
LocalsOf(k) ==
    [cLocal[k] EXCEPT !.messages = cMessages[Scope(k)],
                      !.iterations = cIterations[Scope(k)]]

\* Invocation k is resumed by ev and runs to its next await
Resume(k, ev) ==
    LET st == InvocationStep(LocalsOf(k), ev)
    IN /\ cMessages' = [cMessages EXCEPT ![Scope(k)] = st.messages]
       /\ cIterations' = [cIterations EXCEPT ![Scope(k)] = st.iterations]
       /\ cLocal' = [cLocal EXCEPT ![k] = [st EXCEPT !.messages = <<>>,
                                                     !.iterations = 0]]
       /\ cLog' = [cLog EXCEPT ![k] = Append(@, ev)]
       /\ UNCHANGED <<extractVars, normVars, pairingVars, shutdownVars, splitVars, delegationVars>>

\* The provider.chat calls of invocation k that were answered
ChatsAnswered(k) == Len(SelectSeq(cLog[k], LAMBDA ev : ev.type = "chat"))

ConcurrentInit ==
    /\ IdleArgs
    /\ Idle
    /\ ExtractOff
    /\ NormalizeOff
    /\ PairingOff
    /\ ShutdownOff
    /\ SplitOff
    /\ cMessages = [k \in Invocations |-> <<>>]
    /\ cIterations = [k \in Invocations |-> 0]
    /\ cLocal = [k \in Invocations |-> NotStarted]
    /\ cLog = [k \in Invocations |-> <<>>]

\* execute assembles the tools of invocation k and calls runSubAgent, which
\* runs to its first await
CStart ==
    \E k \in Invocations :
      /\ cLocal[k].lpc = "idle"
      /\ Resume(k, [type |-> "start", task |-> ConcurrentTask(k),
                    tools |-> SubAgentTools(SafeToolNames(JsUndefined),
                                            ConcurrentAdditional(k))])

\* provider.chat resolves for invocation k
CChatReturns ==
    \E k \in Invocations, resp \in ConcurrentResponses :
      /\ cLocal[k].lpc = "chat"
      /\ ChatsAnswered(k) < MaxConcurrentTurns
      /\ Resume(k, [type |-> "chat", resp |-> resp])

\* tool.execute resolves for invocation k
CToolReturns ==
    \E k \in Invocations :
      /\ cLocal[k].lpc = "tool"
      /\ Resume(k, [type |-> "toolDone"])

\* The timer of invocation k fires
CTimerFires ==
    \E k \in Invocations :
      /\ cLocal[k].lpc # "idle"
      /\ ~cLocal[k].timerFired
      /\ Resume(k, [type |-> "timer"])

ConcurrentNext ==
    \/ CStart
    \/ CChatReturns
    \/ CToolReturns
    \/ CTimerFires

ConcurrentSpec == ConcurrentInit /\ [][ConcurrentNext]_vars

\* ------------------------------------------------------------------------
\* The Telnyx pairing tools: telnyx_pair, telnyx_unpair, telnyx_send_sms.
\* configManager and secrets are stores: get and retrieve give what was last
\* set or stored under the key, undefined (null) when nothing was.
\* ------------------------------------------------------------------------

TELNYX_PLUGIN_ID == "@tinyclaw/plugin-channel-telnyx"

Digits == {"0", "1", "2", "3", "4", "5", "6", "7", "8", "9"}

\* chars.match(/^\+[1-9]\d{6,14}$/) finds a match
IsE164(chars) ==
    /\ Len(chars) >= 8
    /\ Len(chars) <= 16
    /\ chars[1] = "+"
    /\ chars[2] \in Digits \ {"0"}
    /\ \A k \in 3..Len(chars) : chars[k] \in Digits

\* `!v || !v.match(/^\+[1-9]\d{6,14}$/)`: "reject" (the guard is true), "pass",
\* or "throw" when v is truthy and no string (v.match is then not a function)
MatchCheck(v) ==
    IF ~Truthy(v) THEN "reject"
    ELSE IF v.t = "string"
         THEN (IF IsE164(v.s) THEN "pass" ELSE "reject")
         ELSE "throw"

ValidPhone == <<"+", "1", "5", "5", "5", "1", "2", "3">>

PhoneValues ==
    {JsUndefined, JsNumber, JsString(ValidPhone),
     JsString(<<"+", "0", "5", "5", "5", "1", "2", "3">>),
     JsString(<<"5", "5", "5">>)}

ApiKeyValues ==
    {JsUndefined, JsNumber, JsString(<<" ">>), JsString(<<" ", "KEY1", " ">>)}

MessageValues ==
    {JsUndefined, JsNumber, JsString(<<" ", " ">>), JsString(<<"h", "i">>),
     JsString(<<"a", "\n", "b">>)}

\* The plugins.enabled lists the tools may find: not set, or a list that
\* holds the Telnyx plugin id at most once
PluginLists ==
    {JsUndefined, JsArray(<<>>), JsArray(<<"plugin-a">>),
     JsArray(<<TELNYX_PLUGIN_ID>>),
     JsArray(<<"plugin-a", TELNYX_PLUGIN_ID, "plugin-b">>),
     JsArray(<<"plugin-b", "plugin-a">>)}

\* configManager.get('plugins.enabled') ?? []
CurrentPlugins(stored) == IF IsNullish(stored) THEN <<>> ELSE stored.a

\* PairedPlugins that adds the id without looking for it
PairedPluginsNoDedupe(current) == Append(current, TELNYX_PLUGIN_ID)

\* The list telnyx_pair leaves: [...current, TELNYX_PLUGIN_ID] unless current
\* includes the id
PairedPlugins(current) ==
    IF TELNYX_PLUGIN_ID \in Range(current) THEN current
    ELSE Append(current, TELNYX_PLUGIN_ID)

\* current.filter((id) => id !== TELNYX_PLUGIN_ID)
UnpairedPlugins(current) ==
    SelectSeq(current, LAMBDA id : id # TELNYX_PLUGIN_ID)

\* message.match(/.{1,150}(\s|$)/g) for a message of fewer than 150
\* characters that is not blank: one chunk for each run of characters other
\* than line breaks
RECURSIVE SmsChunkCount(_)
SmsChunkCount(chars) ==
    IF chars = <<>> THEN 0
    ELSE IF chars[1] = "\n" THEN SmsChunkCount(Tail(chars))
    ELSE IF Len(chars) >= 2 /\ chars[2] # "\n"
         THEN SmsChunkCount(Tail(chars))
         ELSE 1 + SmsChunkCount(Tail(chars))

\* A call ended: `return text` ("ok", "error") or a raise ("thrown")
CallEnds(op, kind) == tLast' = [op |-> op, kind |-> kind]

\* A catch block that returns `Error ...: ${(err as Error).message}` for the
\* raised value v
CaughtKind(v) == IF MessageThrows(v) THEN "thrown" ELSE "error"

PairingInit ==
    /\ IdleArgs
    /\ Idle
    /\ ExtractOff
    /\ NormalizeOff
    /\ ConcurrentOff
    /\ tEnabled \in {"undefined", "true", "false"}
    /\ tPhone \in {JsUndefined, JsString(ValidPhone)}
    /\ tApiKey \in {JsUndefined, JsString(<<"KEY0">>)}
    /\ tPlugins \in PluginLists
    /\ tPlugins0 = tPlugins
    /\ PairingIdle
    /\ ShutdownOff
    /\ SplitOff

\* telnyx_pair.execute up to `await secrets.store(...)`
PairCall ==
    \E apiKey \in ApiKeyValues, phoneNumber \in PhoneValues :
      /\ UNCHANGED notPairingVars
      /\ pPc = "idle"
      /\ UNCHANGED <<telnyxConfigVars, sendVars>>
      /\ IF TrimCheck(apiKey) = "throw"
         THEN CallEnds("pair", "thrown") /\ UNCHANGED pairVars
         ELSE IF TrimCheck(apiKey) = "reject"
         THEN CallEnds("pair", "error") /\ UNCHANGED pairVars
         ELSE IF MatchCheck(phoneNumber) = "throw"
         THEN CallEnds("pair", "thrown") /\ UNCHANGED pairVars
         ELSE IF MatchCheck(phoneNumber) = "reject"
         THEN CallEnds("pair", "error") /\ UNCHANGED pairVars
         ELSE /\ pPc' = "storing"
              /\ pArgs' = [apiKey |-> apiKey, phoneNumber |-> phoneNumber]
              /\ UNCHANGED tLast

\* secrets.store resolved: the configManager.set calls of telnyx_pair, of
\* which the failAt-th raises v (none when failAt = 0)
PairStoreResolves ==
    \E failAt \in 0..4, v \in RaisedValues :
      /\ UNCHANGED notPairingVars
      /\ pPc = "storing"
      /\ failAt = 0 => v = "Error"
      /\ failAt = 4 => TELNYX_PLUGIN_ID \notin Range(CurrentPlugins(tPlugins))
      /\ pPc' = "idle"
      /\ pArgs' = NoPairArgs
      /\ tApiKey' = JsString(Trim(pArgs.apiKey.s))
      /\ tPhone' = IF failAt = 1 THEN tPhone ELSE pArgs.phoneNumber
      /\ tEnabled' = IF failAt \in {1, 2} THEN tEnabled ELSE "true"
      /\ tPlugins' = IF failAt = 0
                     THEN JsArray(PairedPlugins(CurrentPlugins(tPlugins)))
                     ELSE tPlugins
      /\ CallEnds("pair", IF failAt = 0 THEN "ok" ELSE CaughtKind(v))
      /\ UNCHANGED <<tPlugins0, sendVars>>

\* secrets.store rejected with v
PairStoreRejects ==
    \E v \in RaisedValues :
      /\ UNCHANGED notPairingVars
      /\ pPc = "storing"
      /\ pPc' = "idle"
      /\ pArgs' = NoPairArgs
      /\ CallEnds("pair", CaughtKind(v))
      /\ UNCHANGED <<telnyxConfigVars, sendVars>>

\* telnyx_unpair.execute, of whose two configManager.set calls the failAt-th
\* raises v (none when failAt = 0)
Unpair ==
    \E failAt \in 0..2, v \in RaisedValues :
      /\ UNCHANGED notPairingVars
      /\ failAt = 0 => v = "Error"
      /\ tEnabled' = IF failAt = 1 THEN tEnabled ELSE "false"
      /\ tPlugins' = IF failAt = 0
                     THEN JsArray(UnpairedPlugins(CurrentPlugins(tPlugins)))
                     ELSE tPlugins
      /\ CallEnds("unpair", IF failAt = 0 THEN "ok" ELSE CaughtKind(v))
      /\ UNCHANGED <<tPhone, tApiKey, tPlugins0, pairVars, sendVars>>

\* telnyx_send_sms.execute up to `await secrets.retrieve(...)`
SendCall ==
    \E to \in PhoneValues, message \in MessageValues :
      /\ UNCHANGED notPairingVars
      /\ sPc = "idle"
      /\ UNCHANGED <<telnyxConfigVars, pairVars, tSent>>
      /\ IF MatchCheck(to) = "throw"
         THEN CallEnds("send", "thrown") /\ UNCHANGED <<sPc, sPhone, sLeft>>
         ELSE IF MatchCheck(to) = "reject"
         THEN CallEnds("send", "error") /\ UNCHANGED <<sPc, sPhone, sLeft>>
         ELSE IF TrimCheck(message) = "throw"
         THEN CallEnds("send", "thrown") /\ UNCHANGED <<sPc, sPhone, sLeft>>
         ELSE IF TrimCheck(message) = "reject"
         THEN CallEnds("send", "error") /\ UNCHANGED <<sPc, sPhone, sLeft>>
         ELSE IF tEnabled # "true"
         THEN CallEnds("send", "error") /\ UNCHANGED <<sPc, sPhone, sLeft>>
         ELSE /\ sPc' = "retrieving"
              /\ sPhone' = tPhone
              /\ sLeft' = SmsChunkCount(message.s)
              /\ UNCHANGED tLast

\* The call of telnyx_send_sms ends
SendEnds(kind) ==
    /\ sPc' = "idle"
    /\ sPhone' = JsUndefined
    /\ sLeft' = 0
    /\ CallEnds("send", kind)

\* secrets.retrieve resolved with the stored key, or with null
SendRetrieveResolves ==
    /\ UNCHANGED notPairingVars
    /\ sPc = "retrieving"
    /\ UNCHANGED <<telnyxConfigVars, pairVars, tSent>>
    /\ IF ~Truthy(sPhone) \/ ~Truthy(tApiKey)
       THEN SendEnds("error")
       ELSE sPc' = "importing" /\ UNCHANGED <<sPhone, sLeft, tLast>>

\* secrets.retrieve rejected: the await is outside the try block
SendRetrieveRejects ==
    /\ UNCHANGED notPairingVars
    /\ sPc = "retrieving"
    /\ SendEnds("thrown")
    /\ UNCHANGED <<telnyxConfigVars, pairVars, tSent>>

\* import('telnyx') resolved: the client is made and the first chunk is
\* handed to client.messages.create
SendImportResolves ==
    /\ UNCHANGED notPairingVars
    /\ sPc = "importing"
    /\ tSent < MaxSent
    /\ sPc' = "sending"
    /\ tSent' = tSent + 1
    /\ sLeft' = sLeft - 1
    /\ UNCHANGED <<telnyxConfigVars, pairVars, sPhone, tLast>>

\* client.messages.create resolved: the next chunk, or the end of the call
SendCreateResolves ==
    /\ UNCHANGED notPairingVars
    /\ sPc = "sending"
    /\ UNCHANGED <<telnyxConfigVars, pairVars>>
    /\ IF sLeft > 0
       THEN /\ tSent < MaxSent
            /\ tSent' = tSent + 1
            /\ sLeft' = sLeft - 1
            /\ UNCHANGED <<sPc, sPhone, tLast>>
       ELSE SendEnds("ok") /\ UNCHANGED tSent

\* import('telnyx') or client.messages.create rejected with v
SendRaises ==
    \E v \in RaisedValues :
      /\ UNCHANGED notPairingVars
      /\ sPc \in {"importing", "sending"}
      /\ SendEnds(CaughtKind(v))
      /\ UNCHANGED <<telnyxConfigVars, pairVars, tSent>>

PairingNext ==
    \/ PairCall
    \/ PairStoreResolves
    \/ PairStoreRejects
    \/ Unpair
    \/ SendCall
    \/ SendRetrieveResolves
    \/ SendRetrieveRejects
    \/ SendImportResolves
    \/ SendCreateResolves
    \/ SendRaises

PairingSpec == PairingInit /\ [][PairingNext]_vars

\* ------------------------------------------------------------------------
\* The SIGINT handler of the start command
\* ------------------------------------------------------------------------

\* A resource the handler stops; idx is the place of a channel plugin in
\* plugins.channels, 0 for the others
Resource(res, idx) == [res |-> res, idx |-> idx]

\* The places at which the handler is suspended in an await
AwaitPcs == {"channelWait", "webUIWait", "learningWait", "heartwareWait", "secretsWait"}

\* Where the handler goes on after the await it is suspended in
AfterAwait(at) ==
    CASE at = "channelWait" -> "channels"
      [] at = "webUIWait" -> "learning"
      [] at = "learningWait" -> "heartware"
      [] at = "heartwareWait" -> "config"
      [] at = "secretsWait" -> "db"

\* The resource whose stop or close the handler awaits
Awaited(at) ==
    CASE at = "channelWait" -> Resource("channel", hChannel)
      [] at = "webUIWait" -> Resource("webUI", 0)
      [] at = "learningWait" -> Resource("learning", 0)
      [] at = "heartwareWait" -> Resource("heartware", 0)
      [] at = "secretsWait" -> Resource("secrets", 0)

\* The stop or close of r is called
Stops(r) == stopped' = Append(stopped, r)

\* The call for r raised, or went well: the catch block only logs
Raised(r, raises) == failed' = IF raises THEN failed \cup {r} ELSE failed

ShutdownInit ==
    /\ IdleArgs
    /\ Idle
    /\ ExtractOff
    /\ NormalizeOff
    /\ ConcurrentOff
    /\ PairingOff
    /\ SplitOff
    /\ hChannels \in 0..MaxChannels
    /\ hWebUI \in {"stop", "close", "none"}
    /\ hLearning \in BOOLEAN
    /\ hHeartware \in BOOLEAN
    /\ isShuttingDown = FALSE
    /\ hPc = "serving"
    /\ hChannel = 0
    /\ stopped = <<>>
    /\ failed = {}
    /\ signals = 0
    /\ ignored = 0

\* The first SIGINT: the flag is set, then `cron.stop(); queue.stop()` in one
\* try block
SigintShutsDown ==
    \E cronRaises \in BOOLEAN, queueRaises \in BOOLEAN :
      /\ UNCHANGED notShutdownVars
      /\ hPc = "serving"
      /\ ~isShuttingDown
      /\ signals < MaxSignals
      /\ signals' = signals + 1
      /\ isShuttingDown' = TRUE
      /\ stopped' = IF cronRaises
                    THEN <<Resource("cron", 0)>>
                    ELSE <<Resource("cron", 0), Resource("queue", 0)>>
      /\ failed' = IF cronRaises THEN {Resource("cron", 0)}
                   ELSE IF queueRaises THEN {Resource("queue", 0)}
                   ELSE {}
      /\ hChannel' = 1
      /\ hPc' = "channels"
      /\ UNCHANGED <<hChannels, hWebUI, hLearning, hHeartware, ignored>>

\* A SIGINT while the first call of the handler is suspended in an await: the
\* flag is set and the new call returns at once
SigintIgnored ==
    /\ UNCHANGED notShutdownVars
    /\ hPc \in AwaitPcs
    /\ signals < MaxSignals
    /\ signals' = signals + 1
    /\ isShuttingDown
    /\ ignored' = ignored + 1
    /\ UNCHANGED <<hChannels, hWebUI, hLearning, hHeartware, isShuttingDown,
                   hPc, hChannel, stopped, failed>>

\* The loop over plugins.channels calls channel.stop()
StopChannel ==
    /\ UNCHANGED notShutdownVars
    /\ hPc = "channels"
    /\ hChannel <= hChannels
    /\ Stops(Resource("channel", hChannel))
    /\ hPc' = "channelWait"
    /\ UNCHANGED <<hChannels, hWebUI, hLearning, hHeartware, isShuttingDown,
                   hChannel, failed, signals, ignored>>

\* An awaited stop or close settles: resolved, or rejected and caught
AwaitSettles ==
    \E raises \in BOOLEAN :
      /\ UNCHANGED notShutdownVars
      /\ hPc \in AwaitPcs
      /\ Raised(Awaited(hPc), raises)
      /\ hChannel' = IF hPc = "channelWait" THEN hChannel + 1 ELSE hChannel
      /\ hPc' = AfterAwait(hPc)
      /\ UNCHANGED <<hChannels, hWebUI, hLearning, hHeartware, isShuttingDown,
                     stopped, signals, ignored>>

\* After the loop: webUI.stop() if it is a function, else webUI.close() if
\* that is one
StopWebUI ==
    /\ UNCHANGED notShutdownVars
    /\ hPc = "channels"
    /\ hChannel > hChannels
    /\ IF hWebUI \in {"stop", "close"}
       THEN Stops(Resource("webUI", 0)) /\ hPc' = "webUIWait"
       ELSE hPc' = "learning" /\ UNCHANGED stopped
    /\ UNCHANGED <<hChannels, hWebUI, hLearning, hHeartware, isShuttingDown,
                   hChannel, failed, signals, ignored>>

\* learning.close() if it is a function
CloseLearning ==
    /\ UNCHANGED notShutdownVars
    /\ hPc = "learning"
    /\ IF hLearning
       THEN Stops(Resource("learning", 0)) /\ hPc' = "learningWait"
       ELSE hPc' = "heartware" /\ UNCHANGED stopped
    /\ UNCHANGED <<hChannels, hWebUI, hLearning, hHeartware, isShuttingDown,
                   hChannel, failed, signals, ignored>>

\* heartwareManager.close() if it is a function
CloseHeartware ==
    /\ UNCHANGED notShutdownVars
    /\ hPc = "heartware"
    /\ IF hHeartware
       THEN Stops(Resource("heartware", 0)) /\ hPc' = "heartwareWait"
       ELSE hPc' = "config" /\ UNCHANGED stopped
    /\ UNCHANGED <<hChannels, hWebUI, hLearning, hHeartware, isShuttingDown,
                   hChannel, failed, signals, ignored>>

\* configManager.close(), not awaited, then `await secretsManager.close()`
CloseConfigAndSecrets ==
    \E raises \in BOOLEAN :
      /\ UNCHANGED notShutdownVars
      /\ hPc = "config"
      /\ stopped' = stopped \o <<Resource("config", 0), Resource("secrets", 0)>>
      /\ Raised(Resource("config", 0), raises)
      /\ hPc' = "secretsWait"
      /\ UNCHANGED <<hChannels, hWebUI, hLearning, hHeartware, isShuttingDown,
                     hChannel, signals, ignored>>

\* db.close(), then process.exit(0)
CloseDatabase ==
    \E raises \in BOOLEAN :
      /\ UNCHANGED notShutdownVars
      /\ hPc = "db"
      /\ Stops(Resource("db", 0))
      /\ Raised(Resource("db", 0), raises)
      /\ hPc' = "exited"
      /\ UNCHANGED <<hChannels, hWebUI, hLearning, hHeartware, isShuttingDown,
                     hChannel, signals, ignored>>

ShutdownNext ==
    \/ SigintShutsDown
    \/ SigintIgnored
    \/ StopChannel
    \/ AwaitSettles
    \/ StopWebUI
    \/ CloseLearning
    \/ CloseHeartware
    \/ CloseConfigAndSecrets
    \/ CloseDatabase

ShutdownSpec == ShutdownInit /\ [][ShutdownNext]_vars


\* ------------------------------------------------------------------------
\* splitSmsChunks of the Telnyx channel plugin
\* ------------------------------------------------------------------------

\* chars.lastIndexOf(pat, from): the largest index, counted from 0, at most
\* from at which pat occurs in chars, or -1
LastIndexOfFrom(chars, pat, from) ==
    LET hits == { k \in 0..from :
                    /\ k + Len(pat) <= Len(chars)
                    /\ SubSeq(chars, k + 1, k + Len(pat)) = pat }
    IN IF hits = {} THEN -1 ELSE CHOOSE k \in hits : \A j \in hits : k >= j

\* splitAt: the last '. ' at or before maxLength, else the last ' ', else
\* maxLength
SplitAt(chars, maxLength) ==
    IF LastIndexOfFrom(chars, <<".", " ">>, maxLength) # -1
    THEN LastIndexOfFrom(chars, <<".", " ">>, maxLength)
    ELSE IF LastIndexOfFrom(chars, <<" ">>, maxLength) # -1
    THEN LastIndexOfFrom(chars, <<" ">>, maxLength)
    ELSE maxLength

\* The texts splitSmsChunks is called with: letters, spaces and periods
SmsTexts ==
    UNION { [1..n -> {"a", " ", "."}] : n \in 0..MaxSmsLen }

SplitInit ==
    /\ IdleArgs
    /\ Idle
    /\ ExtractOff
    /\ NormalizeOff
    /\ ConcurrentOff
    /\ PairingOff
    /\ ShutdownOff
    /\ kText \in SmsTexts
    /\ kMax \in 1..MaxLength
    /\ kPc = "ready"
    /\ remaining = <<>>
    /\ chunks = <<>>

\* splitSmsChunks up to the loop: a text that fits is returned as it is
SplitCall ==
    /\ UNCHANGED notSplitVars
    /\ kPc = "ready"
    /\ IF Len(kText) <= kMax
       THEN kPc' = "returned" /\ chunks' = <<kText>> /\ remaining' = remaining
       ELSE kPc' = "looping" /\ chunks' = <<>> /\ remaining' = kText
    /\ UNCHANGED <<kText, kMax>>

\* The loop ends: `remaining` is empty, or it fits and is the last chunk
SplitLoopEnds ==
    /\ UNCHANGED notSplitVars
    /\ kPc = "looping"
    /\ Len(remaining) <= kMax
    /\ kPc' = "returned"
    /\ chunks' = IF Len(remaining) > 0 THEN Append(chunks, remaining) ELSE chunks
    /\ UNCHANGED <<kText, kMax, remaining>>

\* One turn of the loop that splits `remaining`
SplitIteration ==
    /\ UNCHANGED notSplitVars
    /\ kPc = "looping"
    /\ Len(remaining) > kMax
    /\ Len(chunks) < MaxChunks
    /\ LET splitAt == SplitAt(remaining, kMax)
       IN /\ chunks' = Append(chunks, Trim(SubSeq(remaining, 1, splitAt)))
          /\ remaining' = Trim(SubSeq(remaining, splitAt + 1, Len(remaining)))
    /\ UNCHANGED <<kText, kMax, kPc>>

SplitNext ==
    \/ SplitCall
    \/ SplitLoopEnds
    \/ SplitIteration

SplitSpec == SplitInit /\ [][SplitNext]_vars


\* ------------------------------------------------------------------------
\* Properties
\* ------------------------------------------------------------------------

TimeoutResponse == <<"Sub-agent error: ", "Sub-agent timed out">>

\* C1: whichever way a run of runSubAgent ends, the iterations value of the
\* outcome it returns is at most 10 (and the counter itself never passes 10).
C1_IterationsAtMostCap ==
    /\ iterations <= 10
    /\ spc = "returned" => outcome.iterations <= 10

\* A run that ended by exhaustion, with the counter at the cap
C1_Witness ==
    /\ spc = "returned"
    /\ outcome.response = ExhaustedText
    /\ outcome.iterations = 10

\* C2: the tool list handed to the sub-agent holds no tool named
\* delegate_task, also when the caller's additional tools or the configured
\* default set name it.
C2_NoDelegateTaskGranted ==
    spc # "idle" => DELEGATE_TASK \notin Range(tools)

\* A sub-agent started although both the arguments and the configured
\* default set name delegate_task
C2_Witness ==
    /\ spc # "idle"
    /\ args.tools.t = "array"
    /\ DELEGATE_TASK \in Range(args.tools.a)
    /\ ~IsNullish(defaultSubAgentTools)
    /\ DELEGATE_TASK \in Range(defaultSubAgentTools.a)
    /\ "shell_exec" \in Range(tools)

\* C3: every tool whose execute is invoked, for a native call or for a call
\* extracted from text, has a name in the granted tool list; a call that names
\* any other tool invokes nothing.
C3_ExecutedToolsAreGranted ==
    /\ executed \subseteq Range(tools)
    /\ lpc = "tool" => curCall.name \in Range(tools)

\* The backend asked for delegate_task and then heartware_read in one native
\* response: only the second was invoked
C3_Witness ==
    /\ lastResp.type = "tool_calls"
    /\ Len(lastResp.toolCalls) = 2
    /\ lastResp.toolCalls[1].name = DELEGATE_TASK
    /\ lpc = "tool"
    /\ curCall.name = "heartware_read"
    /\ executed = {"heartware_read"}
    /\ Len(messages) = 4

\* C4: execute of delegate_task never raises, whatever its arguments are and
\* whatever the classifier, the backend and the tools do.
C4_ExecuteNeverRaises == pc # "thrown"

\* C5: runSubAgent never throws: whatever run raises, the guard returns an
\* outcome with success = false whose response carries the raised value's
\* message.
C5_GuardCatchesEveryRaise ==
    (winner = "loop" /\ lpc = "raised") =>
        /\ spc = "returned"
        /\ outcome.success = FALSE
        /\ outcome.response = <<"Sub-agent error: ", MessageOf(loopRaised)>>

\* C6: every invocation of runSubAgent returns an outcome: once run has ended
\* (after at most 10 backend calls) or the timer has fired, the outcome is
\* there, and it is the timeout failure when the timer settled the race.
C6_InvocationReturnsOutcome ==
    (spc # "idle" /\ (lpc \in {"returned", "raised"} \/ timerFired)) =>
        /\ spc = "returned"
        /\ chatCalls <= 10
        /\ winner = "timer" =>
             outcome.success = FALSE /\ outcome.response = TimeoutResponse

\* C7: the race has one outcome, fixed by the first settlement: when run
\* returns first its result is the outcome, when the timer fires first the
\* timeout failure is, and nothing that settles later changes what was
\* returned.
C7_FirstSettlementDecides ==
    /\ [](winner = "loop" /\ lpc = "returned" =>
            spc = "returned" /\ outcome = loopResult)
    /\ [](winner = "timer" =>
            /\ spc = "returned"
            /\ outcome.success = FALSE
            /\ outcome.response = TimeoutResponse)
    /\ [][winner # "none" => UNCHANGED <<winner, spc, outcome, pc, result>>]_vars

\* The timer fired first, and run later returned a final text
C7_Witness ==
    /\ winner = "timer"
    /\ lpc = "returned"
    /\ loopResult.success = TRUE
    /\ outcome.success = FALSE

\* C8 as stated: when the timer settles the race, the iterations value of the
\* failure outcome is the number of turns completed before, the turn in flight
\* not counted.
C8_TimeoutCountsCompletedTurns ==
    [][winner = "none" /\ winner' = "timer" =>
         outcome'.iterations = turnsCompleted]_vars

\* C8 as the code has it: when the timer settles the race, the iterations
\* value of the failure outcome is the number of turns started, which is the
\* number of turns completed plus one for the turn whose call is in flight.
C8_TimeoutCountsStartedTurns ==
    [][winner = "none" /\ winner' = "timer" =>
         /\ outcome'.iterations = turnsCompleted + 1
         /\ outcome'.iterations = chatCalls
         /\ outcome'.success = FALSE]_vars

\* The timer fired while the tool call of the second turn is in flight
C8_Witness ==
    /\ winner = "timer"
    /\ lpc = "tool"
    /\ turnsCompleted = 1
    /\ outcome.iterations = 2

\* C9: the first turn k on which the backend gives a text with no extractable
\* tool call ends the loop: run returns success with that text and
\* iterations = k, which is the outcome unless the timer fired before, and no
\* backend call or tool execution follows.
C9_FinalTextEndsLoop ==
    /\ [](IsFinalText(lastResp) =>
            /\ chatCalls \in 1..10
            /\ lpc = "returned"
            /\ loopResult =
                 [success |-> TRUE, response |-> lastResp.content,
                  iterations |-> chatCalls, providerId |-> provider]
            /\ winner = "loop" => outcome = loopResult)
    /\ [][IsFinalText(lastResp) =>
            UNCHANGED <<chatCalls, executed, lpc, loopResult, messages>>]_vars

\* A text with braces that does not parse, on the third turn, is the answer
C9_Witness ==
    /\ lastResp = TextResponse(<<"{", "oops", "}">>)
    /\ chatCalls = 3
    /\ winner = "loop"
    /\ outcome.success = TRUE
    /\ outcome.iterations = 3
    /\ Len(messages) = 6

\* C10: when every backend call returns and none of the responses is a final
\* text, and the timer does not fire, the backend is called exactly 10 times
\* and the outcome is the exhaustion failure with iterations = 10.
C10_ExhaustionAfterTenCalls ==
    (/\ spc \in {"returned", "thrown"}
     /\ winner = "loop"
     /\ ~timerFired
     /\ ~IsFinalText(lastResp)
     /\ loopRaised \in {"none", "TypeError"}) =>
        /\ chatCalls = 10
        /\ spc = "returned"
        /\ outcome = [success |-> FALSE, response |-> ExhaustedText,
                      iterations |-> 10, providerId |-> provider]

\* The first tool call a response asks for: the call extracted from a text,
\* the head of a native list
FirstCallOf(resp, uuid) ==
    IF resp.type = "text" THEN extractToolCallFromText(resp.content, uuid)
    ELSE IF resp.toolCalls # <<>> THEN Head(resp.toolCalls) ELSE NoCall

\* A step in which provider.chat resolves
ChatReturnsStep ==
    /\ lpc = "chat"
    /\ lpc' # "raised"
    /\ lpc' # "chat" \/ i' # i

\* C11: a tool call that names a tool outside the granted list gets a text
\* naming that tool; the text is appended to the history as the tool-result
\* message of the call, no tool is invoked for it, and run goes on (to the
\* next call of the turn or to the next turn, which after the tenth turn is
\* the exhaustion return) instead of ending the invocation.
C11_MissingToolContinues ==
    [][(/\ ChatReturnsStep
        /\ FirstCallOf(lastResp', nextUuid).name # ""
        /\ FirstCallOf(lastResp', nextUuid).name \notin Range(tools)) =>
          LET call == FirstCallOf(lastResp', nextUuid)
              n == Len(messages)
          IN /\ Len(messages') >= n + 2
             /\ SubSeq(messages', 1, n) = messages
             /\ messages'[n + 1].role = "assistant"
             /\ messages'[n + 1].content = lastResp'.content
             /\ messages'[n + 2] =
                  [role |-> "tool",
                   content |-> <<"Error: Tool \"", call.name, "\" not found">>,
                   toolCalls |-> <<>>, toolCallId |-> call.id]
             /\ call.name \notin executed' \ executed
             /\ loopRaised' = "none"
             /\ \/ lpc' = "tool"
                \/ lpc' = "chat" /\ i' = i + 1 /\ chatCalls' = chatCalls + 1
                \/ /\ lpc' = "returned"
                   /\ chatCalls = 10
                   /\ loopResult'.response = ExhaustedText]_vars

\* The text of the first turn asked for shell_exec, which is not granted: the
\* history holds the not-found result and the second backend call is under way
C11_Witness ==
    /\ lastResp = TextResponse(<<"{", "tool", ":", "shell_exec", "}">>)
    /\ "shell_exec" \notin Range(tools)
    /\ Len(messages) = 4
    /\ messages[4].content = <<"Error: Tool \"", "shell_exec", "\" not found">>
    /\ lpc = "chat"
    /\ chatCalls = 2
    /\ executed = {}

\* C12: a granted tool that raises, whatever the raised value, never makes
\* executeToolCall raise: the failure becomes the text of the tool-result
\* message and run continues, so no step that resumes run from tool.execute
\* ends run by a raise.
C12_ToolFailureIsRecovered ==
    [][lpc = "tool" =>
         /\ lpc' # "raised"
         /\ spc' # "thrown"
         /\ Len(messages') >= Len(messages)]_vars

\* C13: turns and tool calls of one invocation are strictly sequential.  While
\* provider.chat is awaited no tool call is in flight and none of the previous
\* turn is left over; while a tool of a native turn is awaited it is call k of
\* the response's list, calls k+1.. are the ones not yet started, and the
\* history ends with the assistant and tool-result messages of calls 1..k-1 in
\* list order; a call extracted from text is the only call of its turn.
C13_CallsRunInListOrder ==
    /\ lpc = "chat" => curCall = NoCall /\ pending = <<>>
    /\ (lpc = "tool" /\ ~turn.native) =>
         /\ pending = <<>>
         /\ lastResp.type = "text"
         /\ curCall.name = extractToolCallFromText(lastResp.content, 1).name
    /\ (lpc = "tool" /\ turn.native) =>
         LET calls == lastResp.toolCalls
             k == Len(calls) - Len(pending)
             base == Len(messages) - 2 * (k - 1)
         IN /\ k >= 1
            /\ calls[k] = curCall
            /\ pending = SubSeq(calls, k + 1, Len(calls))
            /\ base >= 2
            /\ \A j \in 1..(k - 1) :
                 /\ messages[base + 2 * j - 1].role = "assistant"
                 /\ messages[base + 2 * j - 1].toolCalls = <<calls[j]>>
                 /\ messages[base + 2 * j].role = "tool"
                 /\ messages[base + 2 * j].toolCallId = calls[j].id

\* The second call of the native response of the second turn is in flight
C13_Witness ==
    /\ lpc = "tool"
    /\ turn.native
    /\ chatCalls = 2
    /\ Len(lastResp.toolCalls) = 2
    /\ curCall = lastResp.toolCalls[2]
    /\ Len(messages) = 6
    /\ messages[5].toolCalls = <<lastResp.toolCalls[1]>>

\* An empty or whitespace-only text
IsBlankText(v) == v.t = "string" /\ \A k \in 1..Len(v.s) : v.s[k] = " "

\* C14: when task or role is an empty or whitespace-only text, execute
\* returns a descriptive error text and has called neither the router, nor a
\* backend, nor a tool.
C14_BlankTaskOrRoleRejected ==
    (pc # "start" /\ (IsBlankText(args.task) \/ IsBlankText(args.role))) =>
        /\ pc = "returned"
        /\ result \in {TaskErrorText, RoleErrorText}
        /\ routerCalls = 0
        /\ chatCalls = 0
        /\ executed = {}

C16_GrantedSetIsFilteredUnion ==
    spc # "idle" =>
        LET safe == IF defaultSubAgentTools.t = "array"
                    THEN Range(defaultSubAgentTools.a)
                    ELSE {"heartware_read", "heartware_search",
                          "heartware_list", "memory_recall"}
            additional == IF args.tools.t = "array" THEN Range(args.tools.a)
                          ELSE {}
        IN /\ \A k \in 1..Len(AllTools) :
                AllTools[k] \in Range(tools) <=>
                    /\ AllTools[k] \in safe \cup additional
                    /\ AllTools[k] # "delegate_task"
           /\ Range(tools) \subseteq Range(AllTools)
           /\ \A a, b \in 1..Len(tools) :
                a < b => \E x, y \in 1..Len(AllTools) :
                           x < y /\ AllTools[x] = tools[a] /\ AllTools[y] = tools[b]

\* The configured default set and the additional names together grant
\* heartware_read and shell_exec, and nothing else
C16_Witness ==
    /\ spc # "idle"
    /\ defaultSubAgentTools.t = "array"
    /\ args.tools.t = "array"
    /\ tools = <<"heartware_read", "shell_exec">>

\* The text has a piece that holds the "Error" marker
HasErrorMarker(text) ==
    \E k \in 1..Len(text) : text[k] \in {"Error: ", "Error resolving provider: "}

\* execute has ended and one of the failure categories occurred: a rejected
\* task or role, a failed resolution, a timeout, exhausted iterations or an
\* exception in the loop
FailureOccurred ==
    /\ pc \in {"returned", "thrown"}
    /\ ~(spc = "returned" /\ outcome.success)

\* C17: every failure category (validation error, backend resolution error,
\* timeout, iteration exhaustion, exception in the loop) makes execute return
\* a text that carries the "Error" marker.
C17_FailuresCarryErrorMarker ==
    FailureOccurred => pc = "returned" /\ HasErrorMarker(result)

\* ------------------------------------------------------------------------
\* Properties of extractToolCallFromText
\* ------------------------------------------------------------------------

\* The positions of the braces of the text
OpenBraces == { k \in 1..Len(xText) : xText[k] = "{" }
CloseBraces == { k \in 1..Len(xText) : xText[k] = "}" }

\* The first "{" is there and the last "}" comes after it
BracesInOrder ==
    /\ OpenBraces # {}
    /\ CloseBraces # {}
    /\ \E a \in OpenBraces, b \in CloseBraces :
         /\ \A k \in OpenBraces : a <= k
         /\ \A k \in CloseBraces : k <= b
         /\ a < b

FirstOpenBrace == CHOOSE a \in OpenBraces : \A k \in OpenBraces : a <= k
LastCloseBrace == CHOOSE b \in CloseBraces : \A k \in CloseBraces : k <= b

\* The slice parses as an object
SliceIsObject ==
    BracesInOrder /\ JsonParses(SubSeq(xText, FirstOpenBrace, LastCloseBrace))

\* The object the slice parses to
SliceObject == JsonObject(SubSeq(xText, FirstOpenBrace, LastCloseBrace))

HasAliasKey ==
    "action" \in DOMAIN SliceObject \/ "tool" \in DOMAIN SliceObject
        \/ "name" \in DOMAIN SliceObject

\* The value of the first alias key present, in the order action, tool, name
FirstAliasValue ==
    IF "action" \in DOMAIN SliceObject THEN SliceObject["action"]
    ELSE IF "tool" \in DOMAIN SliceObject THEN SliceObject["tool"]
    ELSE SliceObject["name"]

FirstAliasKey ==
    IF "action" \in DOMAIN SliceObject THEN "action"
    ELSE IF "tool" \in DOMAIN SliceObject THEN "tool"
    ELSE "name"

\* The call to extractToolCallFromText is over
ExtractOver == xpc \in {"returned", "raised"}

\* C18: extraction fails closed: for every text the call returns a tool call
\* or reports not found and never raises, and it reports not found when the
\* text has no "{", no "}", when the last "}" is not after the first "{", when
\* the slice does not parse as an object and when the object has no alias key.
C18_ExtractionFailsClosed ==
    ExtractOver =>
        /\ xpc = "returned"
        /\ xCall = NoCall \/ (xCall.name # "" /\ xCall.id = nextUuid)
        /\ (~BracesInOrder \/ ~SliceIsObject \/ ~HasAliasKey) => xCall = NoCall

\* C19 as stated: when the object has an alias key the call's name is the
\* value of the first key present in the order action, tool, name, and not
\* found is reported for lack of a name only when none of the three is there.
C19_NameFromFirstPresentKey ==
    (ExtractOver /\ SliceIsObject) =>
        IF HasAliasKey
        THEN xCall # NoCall /\ xCall.name = FirstAliasValue
        ELSE xCall = NoCall

\* The text conversion of the value is empty: the empty text, the empty array
ConvertsToEmpty(v) == v \in {"", "[]"}

\* C19, amended: a returned call's name is the value of the first alias key
\* present in the order action, tool, name; not found is reported for lack of
\* a name when none of the three keys is present and also when the value of
\* the first present key converts to the empty text, whatever a later alias
\* key holds.
C19_NameFromFirstPresentKeyUnlessEmpty ==
    /\ (xpc = "returned" /\ xCall # NoCall) =>
         /\ SliceIsObject
         /\ HasAliasKey
         /\ xCall.name = FirstAliasValue
         /\ ~ConvertsToEmpty(FirstAliasValue)
    /\ (ExtractOver /\ SliceIsObject
            /\ (~HasAliasKey \/ ConvertsToEmpty(FirstAliasValue))) =>
         xpc = "returned" /\ xCall = NoCall
    /\ (xpc = "returned" /\ SliceIsObject /\ xCall = NoCall) =>
         ~HasAliasKey \/ ConvertsToEmpty(FirstAliasValue)

\* The first alias key holds the empty text, a later one a usable name, and
\* not found was reported
C19_Witness ==
    /\ xpc = "returned"
    /\ SliceIsObject
    /\ "action" \in DOMAIN SliceObject
    /\ SliceObject["action"] = ""
    /\ "tool" \in DOMAIN SliceObject
    /\ SliceObject["tool"] = "read"
    /\ xCall = NoCall

\* The keys of the returned call's arguments, apart from the filename that
\* normalizeToolArguments may add, are exactly `keys`, each with its value
ArgumentsAre(keys) ==
    /\ DOMAIN xCall.arguments \ {"filename"} = keys \ {"filename"}
    /\ \A k \in keys : xCall.arguments[k] = SliceObject[k]

\* C20 as stated: once the name is taken from the first alias key present,
\* all remaining keys of the object, each with its value, are the arguments of
\* the call.
C20_RemainingKeysAreArguments ==
    (xpc = "returned" /\ xCall # NoCall) =>
        ArgumentsAre(DOMAIN SliceObject \ {FirstAliasKey})

\* C20, amended: the arguments of the call are the keys of the object other
\* than action, tool and name, each with its value: all three alias keys are
\* left out, not only the one the name was taken from.
C20_NonAliasKeysAreArguments ==
    (xpc = "returned" /\ xCall # NoCall) =>
        ArgumentsAre(DOMAIN SliceObject \ {"action", "tool", "name"})

\* The name came from action; name was in the object too and is no argument,
\* path is one
C20_Witness ==
    /\ xpc = "returned"
    /\ xCall # NoCall
    /\ xCall.name = "read"
    /\ DOMAIN SliceObject = {"action", "name", "path"}
    /\ SliceObject["action"] = "read"
    /\ DOMAIN xCall.arguments = {"path", "filename"}

\* The text is exactly the encoding of an object with distinct keys, one of
\* them an alias key that holds a non-empty text, none of them file_path or
\* path
IsMinimalPayload ==
    /\ BracesInOrder
    /\ FirstOpenBrace = 1
    /\ LastCloseBrace = Len(xText)
    /\ JsonParses(xText)
    /\ 4 * Cardinality(DOMAIN SliceObject) + 1 = Len(xText)
    /\ Cardinality(DOMAIN SliceObject \cap {"action", "tool", "name"}) = 1
    /\ DOMAIN SliceObject \cap {"file_path", "path"} = {}
    /\ FirstAliasValue \notin {"", EmptyArrayToken, UnprintableToken}

\* C21: extraction round-trips a minimal valid payload: on the encoding of an
\* object with one action key and argument keys (no alias key, file_path or
\* path among them) the recovered call has the same name and exactly the same
\* argument mapping.
C21_MinimalPayloadRoundTrips ==
    (ExtractOver /\ IsMinimalPayload) =>
        /\ xpc = "returned"
        /\ xCall # NoCall
        /\ xCall.name = FirstAliasValue
        /\ DOMAIN xCall.arguments = DOMAIN SliceObject \ {FirstAliasKey}
        /\ \A k \in DOMAIN xCall.arguments : xCall.arguments[k] = SliceObject[k]

\* A payload with the action read and one argument, query
C21_Witness ==
    /\ xpc = "returned"
    /\ IsMinimalPayload
    /\ DOMAIN SliceObject = {"action", "query"}
    /\ xCall.name = "read"
    /\ DOMAIN xCall.arguments = {"query"}

\* ------------------------------------------------------------------------
\* Properties of normalizeToolArguments
\* ------------------------------------------------------------------------

\* The mapping with filename set to v and every other key as in nArgs
WithFilename(v) ==
    [k \in DOMAIN nArgs \cup {"filename"} |->
        IF k = "filename" THEN v ELSE nArgs[k]]

\* C22: normalization only ever adds a filename key: when filename is absent
\* it is set to the value of file_path if present, otherwise to the value of
\* path if present; when filename is present, or neither file_path nor path
\* is, the mapping is returned unchanged; every original key keeps its value;
\* and normalizing twice gives the same as normalizing once.
C22_NormalizationAddsOnlyFilename ==
    /\ npc \in {"once", "twice"} =>
         /\ DOMAIN nOut \subseteq DOMAIN nArgs \cup {"filename"}
         /\ \A k \in DOMAIN nArgs : k \in DOMAIN nOut /\ nOut[k] = nArgs[k]
         /\ nOut = IF "filename" \in DOMAIN nArgs THEN nArgs
                   ELSE IF "file_path" \in DOMAIN nArgs
                   THEN WithFilename(nArgs["file_path"])
                   ELSE IF "path" \in DOMAIN nArgs
                   THEN WithFilename(nArgs["path"])
                   ELSE nArgs
    /\ npc = "twice" => nTwice = nOut

\* file_path and path are both there with different values, filename is not:
\* filename took the value of file_path, and a second pass changed nothing
C22_Witness ==
    /\ npc = "twice"
    /\ DOMAIN nArgs = {"file_path", "path", "query"}
    /\ nArgs["file_path"] # nArgs["path"]
    /\ nOut["filename"] = nArgs["file_path"]
    /\ nTwice = nOut

\* ------------------------------------------------------------------------
\* Properties of two concurrent invocations
\* ------------------------------------------------------------------------

\* The invocation run alone on the events of log, one after the other
RECURSIVE RunAlone(_, _)
RunAlone(st, log) ==
    IF log = <<>> THEN st
    ELSE RunAlone(InvocationStep(st, Head(log)), Tail(log))

FailureFormatted == pc = "returned" /\ spc = "returned" /\ ~outcome.success

\* C25 as stated: the failure text carries a header equivalent to the success
\* header: it names the role, the iteration count and the backend identifier,
\* and the failure detail follows.
C25_FailureHeaderNamesBackend ==
    FailureFormatted =>
        /\ provider \in Range(result)
        /\ ToString(outcome.iterations) \in Range(result)
        /\ SubSeq(result, 2, 1 + Len(args.role.s)) = args.role.s

\* C25, amended: the failure text carries a header that names the role and
\* the iteration count, followed by "Error: " and the failure detail; unlike
\* the success header it does not name the backend identifier.
C25_FailureHeaderNamesRoleAndCount ==
    (pc = "returned" /\ spc = "returned") =>
        IF outcome.success
        THEN result = <<"[Sub-agent (">> \o args.role.s
                      \o <<") completed in ", ToString(outcome.iterations),
                           " iteration(s) via ", provider, "]\n\n">>
                      \o outcome.response
        ELSE /\ result = <<"[Sub-agent (">> \o args.role.s
                         \o <<") failed after ", ToString(outcome.iterations),
                              " iteration(s)]\n\n", "Error: ">>
                         \o outcome.response
             /\ provider \notin Range(result)

\* A failure after two turns were started, formatted and returned
C25_Witness ==
    /\ FailureFormatted
    /\ outcome.iterations = 2
    /\ provider = "provider-reasoning"

\* ------------------------------------------------------------------------
\* Properties of the Telnyx pairing tools
\* ------------------------------------------------------------------------

\* The ids of a plugins.enabled value other than the Telnyx plugin id
OtherPlugins(stored) ==
    SelectSeq(CurrentPlugins(stored), LAMBDA id : id # "@tinyclaw/plugin-channel-telnyx")

\* How often the Telnyx plugin id is in a plugins.enabled value
TelnyxEntries(stored) ==
    Cardinality({ k \in 1..Len(CurrentPlugins(stored)) :
                    CurrentPlugins(stored)[k] = "@tinyclaw/plugin-channel-telnyx" })

\* C26: after any sequence of telnyx_pair and telnyx_unpair calls that starts
\* from a plugins.enabled list with the Telnyx plugin id at most once, the
\* list holds the id at most once and the other ids are as they were; after a
\* successful telnyx_pair the enabled flag is true and the id is in the list,
\* after a successful telnyx_unpair the flag is false and the id is not.
C26_PluginListKeepsIdOnce ==
    TelnyxEntries(tPlugins0) <= 1 =>
        /\ TelnyxEntries(tPlugins) <= 1
        /\ OtherPlugins(tPlugins) = OtherPlugins(tPlugins0)
        /\ tLast = [op |-> "pair", kind |-> "ok"] =>
             tEnabled = "true" /\ TelnyxEntries(tPlugins) = 1
        /\ tLast = [op |-> "unpair", kind |-> "ok"] =>
             tEnabled = "false" /\ TelnyxEntries(tPlugins) = 0

\* Paired again after an unpair: the id went from the middle of the list to
\* its end, once, and the two other ids are still there
C26_Witness ==
    /\ tLast = [op |-> "pair", kind |-> "ok"]
    /\ tPlugins0 = JsArray(<<"plugin-a", "@tinyclaw/plugin-channel-telnyx", "plugin-b">>)
    /\ tPlugins = JsArray(<<"plugin-a", "plugin-b", "@tinyclaw/plugin-channel-telnyx">>)
    /\ tEnabled = "true"

\* A step in which a call of telnyx_send_sms runs from its start to its first
\* await or to its end
SendCallStep ==
    /\ sPc = "idle"
    /\ sPc' # "idle" \/ (tLast' # tLast /\ tLast'.op = "send")

\* C27: telnyx_send_sms sends only when the channel is enabled and a phone
\* number and an API key are stored: called in a state where the flag is not
\* true or a value is missing it returns an error text and sends nothing, and
\* a call with an invalid destination or an empty message sends nothing.
C27_SendOnlyWhenPaired ==
    [][/\ (SendCallStep /\ tEnabled # "true") =>
            /\ sPc' = "idle"
            /\ tLast' = [op |-> "send", kind |-> "error"]
            /\ tSent' = tSent
       /\ (sPc = "retrieving" /\ sPc' # "retrieving"
             /\ (~Truthy(sPhone) \/ ~Truthy(tApiKey)) /\ tLast'.kind # "thrown") =>
            /\ sPc' = "idle"
            /\ tLast' = [op |-> "send", kind |-> "error"]
            /\ tSent' = tSent
       /\ tSent' # tSent => tSent' = tSent + 1 /\ sPc' = "sending"]_vars

\* ------------------------------------------------------------------------
\* Properties of the SIGINT handler
\* ------------------------------------------------------------------------

\* The place of a resource in the order of the handler
StopRank(r) ==
    CASE r.res = "cron" -> 1
      [] r.res = "queue" -> 2
      [] r.res = "channel" -> 3
      [] r.res = "webUI" -> 4
      [] r.res = "learning" -> 5
      [] r.res = "heartware" -> 6
      [] r.res = "config" -> 7
      [] r.res = "secrets" -> 8
      [] r.res = "db" -> 9

\* r is stopped before q in the fixed order
StopsBefore(r, q) ==
    \/ StopRank(r) < StopRank(q)
    \/ r.res = "channel" /\ q.res = "channel" /\ r.idx < q.idx

\* The resources the process holds that have a stop or close to call
Stoppable ==
    { [res |-> "cron", idx |-> 0], [res |-> "queue", idx |-> 0],
      [res |-> "config", idx |-> 0], [res |-> "secrets", idx |-> 0],
      [res |-> "db", idx |-> 0] }
    \cup { [res |-> "channel", idx |-> k] : k \in 1..hChannels }
    \cup (IF hWebUI = "none" THEN {} ELSE {[res |-> "webUI", idx |-> 0]})
    \cup (IF hLearning THEN {[res |-> "learning", idx |-> 0]} ELSE {})
    \cup (IF hHeartware THEN {[res |-> "heartware", idx |-> 0]} ELSE {})

\* C28: on shutdown the resources are stopped in a fixed order (cron
\* scheduler and session queue, channel plugins, web UI, learning engine,
\* heartware, config engine, secrets engine, database last), a failure while
\* stopping one of them does not keep a later one from being stopped, and a
\* SIGINT received while shutdown is in progress is ignored, so that each
\* resource is stopped at most once.
C28_ShutdownStopsEachInOrder ==
    /\ \A m, n \in 1..Len(stopped) : m < n => StopsBefore(stopped[m], stopped[n])
    /\ hPc = "exited" => \A r \in Stoppable : \E m \in 1..Len(stopped) : stopped[m] = r
    /\ signals > 0 => ignored = signals - 1

\* ------------------------------------------------------------------------
\* Properties of the loop after the guard settled
\* ------------------------------------------------------------------------

\* A step in which run calls the execute of a tool
ToolExecutionStarts ==
    /\ lpc' = "tool"
    /\ lpc # "tool" \/ pending' # pending

\* C29: once the timeout outcome of an invocation has been returned, the
\* invocation starts no new provider.chat call and no new tool execution; the
\* call in flight when the timer fired may complete, and its result is
\* ignored.
C29_NoNewCallsAfterTimeout ==
    [][(winner = "timer" /\ spc = "returned") =>
         /\ chatCalls' = chatCalls
         /\ ~ToolExecutionStarts
         /\ outcome' = outcome]_vars

\* ------------------------------------------------------------------------
\* Properties of the correlation ids in the history
\* ------------------------------------------------------------------------

\* The places of the tool-result messages in the history
ToolResultPlaces == { p \in 1..Len(messages) : messages[p].role = "tool" }

\* A tool call can be extracted from the text
CarriesTextCall(content) ==
    /\ ~ExtractRaises(content)
    /\ extractToolCallFromText(content, 0) # NoCall

\* C30 as stated: each tool-result message carries a correlation id equal to
\* the id of a tool-call record carried by the assistant message immediately
\* before it, for calls extracted from text as well as for native calls.
C30_ResultIdIsIdOfCarriedCall ==
    \A p \in ToolResultPlaces :
      /\ p > 1
      /\ messages[p - 1].role = "assistant"
      /\ \E k \in 1..Len(messages[p - 1].toolCalls) :
           messages[p - 1].toolCalls[k].id = messages[p].toolCallId

\* C30, amended: each tool-result message directly follows an assistant
\* message. For a native call that message carries exactly one tool-call
\* record and the correlation id of the result is the id of that record; for
\* a call extracted from text that message carries the raw text and no
\* tool-call record, and the correlation id of the result is an id that
\* crypto.randomUUID() gave for the extracted call.
C30_ResultIdIsIdOfExecutedCall ==
    \A p \in ToolResultPlaces :
      /\ p > 1
      /\ messages[p - 1].role = "assistant"
      /\ IF CarriesTextCall(messages[p - 1].content)
         THEN /\ messages[p - 1].toolCalls = <<>>
              /\ messages[p].toolCallId \in 1..(nextUuid - 1)
         ELSE /\ Len(messages[p - 1].toolCalls) = 1
              /\ messages[p - 1].toolCalls[1].id = messages[p].toolCallId

\* The history holds the result of a call extracted from text, with the
\* first generated id, and the result of the native call 101
C30_Witness ==
    /\ \E p \in ToolResultPlaces :
         /\ messages[p].toolCallId = 1
         /\ CarriesTextCall(messages[p - 1].content)
    /\ \E p \in ToolResultPlaces :
         /\ messages[p].toolCallId = 101
         /\ messages[p - 1].toolCalls # <<>>

\* ------------------------------------------------------------------------
\* Properties of splitSmsChunks
\* ------------------------------------------------------------------------

\* A turn of the loop of splitSmsChunks after which the loop goes on
SplitTurn == kPc = "looping" /\ kPc' = "looping" /\ chunks' # chunks

\* C31: splitSmsChunks terminates for every text and every positive
\* maxLength, and every chunk has at most maxLength characters; it terminates
\* also when the remaining text begins with a period followed by a space or
\* when the only sentence boundary in the first maxLength characters is at
\* position 0. `remaining` after a turn is a trimmed tail of `remaining`
\* before it and the turn depends on `remaining` alone, so the loop ends
\* exactly when every turn makes `remaining` shorter.
C31_SplitTerminatesWithShortChunks ==
    /\ [](\A k \in 1..Len(chunks) : Len(chunks[k]) <= kMax)
    /\ [][SplitTurn => Len(remaining') < Len(remaining)]_vars

====
